---- MODULE Spec2Model ----
(***************************************************************************)
(* Innkeeper engine (src/engine.py): the talent-tree acquisition pipeline. *)
(*                                                                         *)
(* The local client (main, run by the desktop application) reads commands  *)
(* from stdin one at a time; FETCH_TALENT_TREE consults the on-disk cache, *)
(* asks the Innkeeper server on a miss and stores the answer;              *)
(* CLEAR_TALENT_CACHE removes the cache directory.  The server             *)
(* (_fetch_talent_tree_from_blizzard) resolves the specialization, fetches *)
(* the raw tree, normalizes it and attaches icons.                         *)
(*                                                                         *)
(* Spec      one engine process: the command loop as the program runs it.  *)
(* SpecConc  two engine processes started on the same data directory, each *)
(*           serving FETCH_TALENT_TREE; the only state they share is the   *)
(*           disk.                                                         *)
(***************************************************************************)
EXTENDS Integers, Sequences, FiniteSets, TLC

(***************************************************************************)
(* Bounds of the model.                                                    *)
(***************************************************************************)
\* Largest integer a cache file's numerals are parsed back to.
MaxNum == 9
\* Tokens the file object hands to the operating system per flush.
ChunkLen == 24
Procs == {1, 2}

(***************************************************************************)
(* Inputs: the values commands and upstream answers are drawn from.        *)
(***************************************************************************)
Regions    == {"eu", "us"}
ClassSlugs == {"mage", "bard"}
SpecSlugs  == {"fire", "frost"}

\* engine.py 85-99
SPEC_IDS ==
  [c \in {"warrior", "paladin", "hunter", "rogue", "priest", "death-knight",
          "shaman", "mage", "warlock", "monk", "druid", "demon-hunter",
          "evoker"} |->
     CASE c = "warrior"      -> [s \in {"arms", "fury", "protection"} |->
                                   CASE s = "arms" -> 71 [] s = "fury" -> 72
                                     [] OTHER -> 73]
       [] c = "paladin"      -> [s \in {"holy", "protection", "retribution"} |->
                                   CASE s = "holy" -> 65 [] s = "protection" -> 66
                                     [] OTHER -> 70]
       [] c = "hunter"       -> [s \in {"beast-mastery", "marksmanship", "survival"} |->
                                   CASE s = "beast-mastery" -> 253
                                     [] s = "marksmanship" -> 254 [] OTHER -> 255]
       [] c = "rogue"        -> [s \in {"assassination", "outlaw", "subtlety"} |->
                                   CASE s = "assassination" -> 259
                                     [] s = "outlaw" -> 260 [] OTHER -> 261]
       [] c = "priest"       -> [s \in {"discipline", "holy", "shadow"} |->
                                   CASE s = "discipline" -> 256 [] s = "holy" -> 257
                                     [] OTHER -> 258]
       [] c = "death-knight" -> [s \in {"blood", "frost", "unholy"} |->
                                   CASE s = "blood" -> 250 [] s = "frost" -> 251
                                     [] OTHER -> 252]
       [] c = "shaman"       -> [s \in {"elemental", "enhancement", "restoration"} |->
                                   CASE s = "elemental" -> 262
                                     [] s = "enhancement" -> 263 [] OTHER -> 264]
       [] c = "mage"         -> [s \in {"arcane", "fire", "frost"} |->
                                   CASE s = "arcane" -> 62 [] s = "fire" -> 63
                                     [] OTHER -> 64]
       [] c = "warlock"      -> [s \in {"affliction", "demonology", "destruction"} |->
                                   CASE s = "affliction" -> 265
                                     [] s = "demonology" -> 266 [] OTHER -> 267]
       [] c = "monk"         -> [s \in {"brewmaster", "mistweaver", "windwalker"} |->
                                   CASE s = "brewmaster" -> 268
                                     [] s = "mistweaver" -> 270 [] OTHER -> 269]
       [] c = "druid"        -> [s \in {"balance", "feral", "guardian", "restoration"} |->
                                   CASE s = "balance" -> 102 [] s = "feral" -> 103
                                     [] s = "guardian" -> 104 [] OTHER -> 105]
       [] c = "demon-hunter" -> [s \in {"havoc", "vengeance", "devourer"} |->
                                   CASE s = "havoc" -> 577 [] s = "vengeance" -> 581
                                     [] OTHER -> 1480]
       [] OTHER              -> [s \in {"devastation", "preservation", "augmentation"} |->
                                   CASE s = "devastation" -> 1467
                                     [] s = "preservation" -> 1468 [] OTHER -> 1473]]

\* A faulty variant of SpecIdOf that settles for the class: a spec the class
\* does not have gets the id of one it has.
SpecIdOf_class(class_slug, spec_slug) ==
  IF class_slug \notin DOMAIN SPEC_IDS THEN 0
  ELSE IF spec_slug \in DOMAIN SPEC_IDS[class_slug]
    THEN SPEC_IDS[class_slug][spec_slug]
  ELSE SPEC_IDS[class_slug][CHOOSE sp \in DOMAIN SPEC_IDS[class_slug] : TRUE]

\* SPEC_IDS.get(class_slug, {}).get(spec_slug): 0 stands for None.
SpecIdOf(class_slug, spec_slug) ==
  IF class_slug \in DOMAIN SPEC_IDS /\ spec_slug \in DOMAIN SPEC_IDS[class_slug]
    THEN SPEC_IDS[class_slug][spec_slug]
    ELSE 0

(***************************************************************************)
(* Sequences.                                                              *)
(***************************************************************************)
Range(s) == {s[i] : i \in DOMAIN s}

RECURSIVE InsertById(_, _)
\* n placed after every element whose id is not larger (a stable insertion).
InsertById(sorted, n) ==
  IF sorted = <<>> THEN <<n>>
  ELSE IF sorted[Len(sorted)].id <= n.id THEN Append(sorted, n)
  ELSE Append(InsertById(SubSeq(sorted, 1, Len(sorted) - 1), n), sorted[Len(sorted)])

RECURSIVE SortById(_)
\* list.sort(key=lambda n: n['id']): stable, ascending by id.
SortById(s) ==
  IF s = <<>> THEN <<>>
  ELSE InsertById(SortById(SubSeq(s, 1, Len(s) - 1)), s[Len(s)])

RECURSIVE SortedInts(_)
\* sorted(set_of_ints)
SortedInts(S) ==
  IF S = {} THEN <<>>
  ELSE LET m == CHOOSE x \in S : \A y \in S : x <= y
       IN  <<m>> \o SortedInts(S \ {m})

(***************************************************************************)
(* Upstream values.  The upstream schema drifts, so a value carries the    *)
(* Python type it arrived with.                                            *)
(*   raw node   [isDict, hasId, id, node_type, locked_by, ranks]           *)
(*   node type  [kind, type]           kind: absent | str | dict | int     *)
(*   raw deps   [kind, items]          kind: absent | list | str | int     *)
(*   raw dep    [kind, id]             kind: int | dict | str              *)
(*   raw ranks  [kind, items]          kind: absent | list | str | int     *)
(*   raw rank   [isDict, spell_id, choices]                                *)
(*              spell_id: tooltip.spell_tooltip.spell.id                   *)
(*   choices    [kind, items]          choice_of_tooltips, kinds as ranks  *)
(*   choice     [isDict, spell_id]     spell_tooltip.spell.id              *)
(*   raw hero   [isDict, id, name, specs, nodes]                           *)
(*   tree ref   [kind, int, key, id]   kind: none | int | dict | str       *)
(*   ref key    [kind, href]           kind: none | dict | str             *)
(* A str is a sequence of characters: iterated, it yields items that are   *)
(* neither dicts nor ints.                                                 *)
(***************************************************************************)
Absent == [kind |-> "absent", items |-> <<>>]
List(items) == [kind |-> "list", items |-> items]
\* an integer where a list is expected
IntDrift == [kind |-> "int", items |-> <<>>]
\* a string of n characters where a list is expected
StrDrift(n) == [kind |-> "str", items |-> [i \in 1..n |-> [isDict |-> FALSE,
                                            kind |-> "str", hasId |-> FALSE, id |-> 0,
                                            spell_id |-> 0, choices |-> [kind |-> "absent", items |-> <<>>]]]]

NoType == [kind |-> "absent", type |-> ""]
StrType(t) == [kind |-> "str", type |-> t]
DictType(t) == [kind |-> "dict", type |-> t]

NoRanks == Absent
Rank(spell_id) == [isDict |-> TRUE, spell_id |-> spell_id, choices |-> Absent]
\* a rank that is not an object
JunkRank == [isDict |-> FALSE, spell_id |-> 0, choices |-> Absent]
Choice(spell_id) == [isDict |-> TRUE, spell_id |-> spell_id]
JunkChoice == [isDict |-> FALSE, spell_id |-> 0]
\* a rank carrying choice_of_tooltips, one alternative per spell id
ChoiceRank(spells) ==
  [isDict |-> TRUE, spell_id |-> 0,
   choices |-> List([i \in DOMAIN spells |-> Choice(spells[i])])]
Ranks(items) == List(items)

IntDep(n) == [kind |-> "int", hasId |-> TRUE, id |-> n]
DictDep(n) == [kind |-> "dict", hasId |-> TRUE, id |-> n]
\* a dependency object without an id
NoIdDep == [kind |-> "dict", hasId |-> FALSE, id |-> 0]

\* a node with its fields as given
RawNode(n, node_type, locked_by, ranks) ==
  [isDict |-> TRUE, hasId |-> TRUE, id |-> n, node_type |-> node_type,
   locked_by |-> locked_by, ranks |-> ranks]
\* a node with id n and one rank per spell id
Node(n, spells) ==
  RawNode(n, NoType, Absent, Ranks([i \in DOMAIN spells |-> Rank(spells[i])]))
NoIdNode == [RawNode(0, NoType, Absent, NoRanks) EXCEPT !.hasId = FALSE]
JunkNode == [NoIdNode EXCEPT !.isDict = FALSE]
\* a node whose ranks field arrived as an integer
DriftNode(n) == RawNode(n, NoType, Absent, IntDrift)

RECURSIVE RankEntries(_)
\* engine.py 254-269 (and 239-253 for the alternatives of a choice): one
\* entry per item that is a dict
RankEntries(items) ==
  IF items = <<>> THEN <<>>
  ELSE IF items[1].isDict
    THEN <<[spell_id |-> items[1].spell_id, icon_url |-> ""]>>
           \o RankEntries(Tail(items))
  ELSE RankEntries(Tail(items))

\* Python truthiness of a list-like field
Truthy(field) ==
  CASE field.kind = "absent" -> FALSE
    [] field.kind = "int"    -> TRUE
    [] OTHER                 -> field.items # <<>>

\* alternatives looked for in every rank, not only in the first
IsChoice_anyrank(ranks) ==
  \E i \in DOMAIN ranks.items :
    ranks.items[i].isDict /\ Truthy(ranks.items[i].choices)

\* engine.py 237: ranks and isinstance(ranks[0], dict) and
\* ranks[0].get('choice_of_tooltips')
IsChoice(ranks) ==
  /\ ranks.items # <<>>
  /\ ranks.items[1].isDict
  /\ Truthy(ranks.items[1].choices)

\* engine.py 214-221, 234-240: iterating locked_by, len(ranks) or iterating
\* choice_of_tooltips raises TypeError when the field is an integer
ParseNodeRaises(node) ==
  \/ node.locked_by.kind = "int"
  \/ node.ranks.kind = "int"
  \/ IsChoice(node.ranks) /\ node.ranks.items[1].choices.kind = "int"

\* engine.py 206-212: node_type
NodeTypeOf(raw_type) ==
  IF raw_type.kind \in {"dict", "str"} THEN raw_type.type ELSE "ACTIVE"

RECURSIVE LockedBy(_)
\* engine.py 214-220
LockedBy(raw_deps) ==
  IF raw_deps = <<>> THEN <<>>
  ELSE IF raw_deps[1].kind \in {"int", "dict"}
    THEN <<raw_deps[1].id>> \o LockedBy(Tail(raw_deps))
  ELSE LockedBy(Tail(raw_deps))

\* engine.py 205-271: the fields of a parsed node this model follows (of an
\* entry, spell_id and icon_url); icon_url "" stands for no icon_url key.
_parse_node(node) ==
  [id        |-> IF node.hasId THEN node.id ELSE 0,
   type      |-> IF IsChoice(node.ranks) THEN "CHOICE"
                 ELSE NodeTypeOf(node.node_type),
   max_ranks |-> IF IsChoice(node.ranks) \/ node.ranks.items = <<>> THEN 1
                 ELSE Len(node.ranks.items),
   entries   |-> IF IsChoice(node.ranks)
                   THEN RankEntries(node.ranks.items[1].choices.items)
                   ELSE RankEntries(node.ranks.items),
   locked_by |-> LockedBy(node.locked_by.items)]

RECURSIVE ParseNodes(_)
\* [_parse_node(n) for n in raw_list if isinstance(n, dict)]
ParseNodes(s) ==
  IF s = <<>> THEN <<>>
  ELSE IF s[1].isDict THEN <<_parse_node(s[1])>> \o ParseNodes(Tail(s))
  ELSE ParseNodes(Tail(s))

\* engine.py 295-302: the spec ids a hero tree's playable_specializations name
SpecIdsInTree(ht_specs) ==
  {ht_specs[i].id : i \in {j \in DOMAIN ht_specs :
       \/ ht_specs[j].kind = "int"
       \/ ht_specs[j].kind = "dict" /\ ht_specs[j].hasId}}

\* engine.py 293-304: the hero tree is skipped
HeroSkipped(ht, active_spec_id) ==
  /\ ht.specs # <<>>
  /\ active_spec_id # 0
  /\ SpecIdsInTree(ht.specs) # {}
  /\ active_spec_id \notin SpecIdsInTree(ht.specs)

RECURSIVE ParseHeroes(_, _)
\* engine.py 284-311
ParseHeroes(hero_raw, active_spec_id) ==
  IF hero_raw = <<>> THEN <<>>
  ELSE LET ht == hero_raw[1]
           rest == ParseHeroes(Tail(hero_raw), active_spec_id)
       IN  IF ~ht.isDict \/ HeroSkipped(ht, active_spec_id) THEN rest
           ELSE <<[id |-> ht.id, name |-> ht.name,
                   nodes |-> ParseNodes(ht.nodes)]>> \o rest

\* a dict node of the list makes _parse_node raise
NodesRaise(s) == \E i \in DOMAIN s : s[i].isDict /\ ParseNodeRaises(s[i])

\* engine.py 273-315: _parse_talent_tree raises (TypeError) instead of returning
ParseTreeRaises(raw, active_spec_id) ==
  \/ NodesRaise(raw.class_talent_nodes)
  \/ NodesRaise(raw.spec_talent_nodes)
  \/ \E i \in DOMAIN raw.hero_talent_trees :
       LET ht == raw.hero_talent_trees[i]
       IN  ht.isDict /\ ~HeroSkipped(ht, active_spec_id) /\ NodesRaise(ht.nodes)

\* engine.py 273-315
_parse_talent_tree(raw, active_spec_id) ==
  [class_nodes |-> SortById(ParseNodes(raw.class_talent_nodes)),
   spec_nodes  |-> SortById(ParseNodes(raw.spec_talent_nodes)),
   hero_trees  |-> ParseHeroes(raw.hero_talent_trees, active_spec_id)]

\* ids of the dict nodes of a raw list that carry an id
IdsOf(s) == {s[i].id : i \in {j \in DOMAIN s : s[j].isDict /\ s[j].hasId}}

\* engine.py 422-433
_collect_node_ids(tree_json) ==
  IdsOf(tree_json.class_talent_nodes) \cup IdsOf(tree_json.spec_talent_nodes)
    \cup UNION {IdsOf(tree_json.hero_talent_trees[i].nodes) :
                  i \in {j \in DOMAIN tree_json.hero_talent_trees :
                           tree_json.hero_talent_trees[j].isDict}}

(***************************************************************************)
(* Numerals: ints are written as text and read back.                       *)
(***************************************************************************)
IsNum(tok) == \E n \in 0..MaxNum : ToString(n) = tok
NumOf(tok) == CHOOSE n \in 0..MaxNum : ToString(n) = tok

(***************************************************************************)
(* Tree-reference extraction, engine.py 385-413.                           *)
(***************************************************************************)
NoKey  == [kind |-> "none", href |-> <<>>]
NoRef  == [kind |-> "none", int |-> 0, key |-> NoKey, id |-> 0]
IntRef(n) == [kind |-> "int", int |-> n, key |-> NoKey, id |-> 0]
HrefRef(segs, id) == [kind |-> "dict", int |-> 0,
                      key |-> [kind |-> "dict", href |-> segs], id |-> id]
IdRef(id) == [kind |-> "dict", int |-> 0, key |-> NoKey, id |-> id]
StrRef == [kind |-> "str", int |-> 0, key |-> NoKey, id |-> 0]

\* Python truthiness of a tree reference
RefTruthy(ref) ==
  CASE ref.kind = "none" -> FALSE
    [] ref.kind = "int"  -> ref.int # 0
    [] OTHER             -> TRUE

\* engine.py 385-391: the reference taken from spec_data; NoRef when there is none
TreeRefOf(spec_data) ==
  IF RefTruthy(spec_data.spec_talent_tree) THEN spec_data.spec_talent_tree
  ELSE IF spec_data.talent_trees # <<>> THEN spec_data.talent_trees[1]
  ELSE NoRef

\* engine.py 385-391: no reference at all, the first SchemaMismatch
NoTreeRef(spec_data) ==
  ~RefTruthy(spec_data.spec_talent_tree) /\ spec_data.talent_trees = <<>>

\* engine.py 403-408: the id parsed from the href, a path given by its segments;
\* 0 when '/talent-tree/' is not in it or the segment after it is no integer
HrefTreeId(segs) ==
  LET at == {i \in 1..(Len(segs) - 1) : segs[i] = "talent-tree"}
  IN  IF at = {} THEN 0
      ELSE LET i == CHOOSE k \in at : \A l \in at : k <= l
           IN  IF IsNum(segs[i + 1]) THEN NumOf(segs[i + 1]) ELSE 0

\* A faulty variant of TreeIdOf that prefers the id field of an object to
\* its href.
TreeIdOf_idfirst(spec_tree_ref) ==
  CASE spec_tree_ref.kind = "int"  -> spec_tree_ref.int
    [] spec_tree_ref.kind = "dict" ->
         IF spec_tree_ref.id # 0 THEN spec_tree_ref.id
         ELSE IF spec_tree_ref.key.kind \in {"dict", "str"}
           THEN HrefTreeId(spec_tree_ref.key.href) ELSE 0
    [] OTHER -> 0

\* engine.py 393-410: the tree id, 0 standing for None
TreeIdOf(spec_tree_ref) ==
  CASE spec_tree_ref.kind = "int"  -> spec_tree_ref.int
    [] spec_tree_ref.kind = "dict" ->
         LET fromHref == IF spec_tree_ref.key.kind \in {"dict", "str"}
                           THEN HrefTreeId(spec_tree_ref.key.href) ELSE 0
         IN  IF fromHref # 0 THEN fromHref ELSE spec_tree_ref.id
    [] OTHER -> 0

(***************************************************************************)
(* The cache file's text.  json.dump writes the tree as a sequence of      *)
(* tokens; json.load reads a sequence of tokens back, or raises.           *)
(*   tree  [class_nodes, spec_nodes, hero_trees, all_node_ids]             *)
(***************************************************************************)
RECURSIVE EncIds(_)
EncIds(ids) ==
  IF ids = <<>> THEN <<>> ELSE <<ToString(ids[1])>> \o EncIds(Tail(ids))

RECURSIVE EncEntries(_)
EncEntries(es) ==
  IF es = <<>> THEN <<>>
  ELSE <<ToString(es[1].spell_id),
         IF es[1].icon_url = "" THEN "-" ELSE es[1].icon_url>>
         \o EncEntries(Tail(es))

RECURSIVE EncNodeSeq(_)
EncNodeSeq(nodes) ==
  IF nodes = <<>> THEN <<>>
  ELSE <<"{", ToString(nodes[1].id), nodes[1].type,
         ToString(nodes[1].max_ranks), "[">> \o EncIds(nodes[1].locked_by)
         \o <<"]">> \o EncEntries(nodes[1].entries)
         \o <<"}">> \o EncNodeSeq(Tail(nodes))

EncNodes(nodes) == <<"[">> \o EncNodeSeq(nodes) \o <<"]">>

RECURSIVE EncHeroes(_)
EncHeroes(hs) ==
  IF hs = <<>> THEN <<>>
  ELSE <<"{", ToString(hs[1].id), hs[1].name>> \o EncNodes(hs[1].nodes)
         \o <<"}">> \o EncHeroes(Tail(hs))

\* json.dump(tree, f, indent=2, ensure_ascii=False): keys in insertion order
JsonDump(tree) ==
  <<"{", "class_nodes">> \o EncNodes(tree.class_nodes)
    \o <<"spec_nodes">> \o EncNodes(tree.spec_nodes)
    \o <<"hero_trees", "[">> \o EncHeroes(tree.hero_trees) \o <<"]">>
    \o <<"all_node_ids", "[">> \o EncIds(tree.all_node_ids) \o <<"]", "}">>

Tok(toks, i) == IF i \in DOMAIN toks THEN toks[i] ELSE "<eof>"

PFail == [ok |-> FALSE, val |-> <<>>, next |-> 0]

RECURSIVE PNums(_, _, _)
\* numerals up to the closing bracket, from position i
PNums(toks, i, acc) ==
  IF Tok(toks, i) = "]" THEN [ok |-> TRUE, val |-> acc, next |-> i + 1]
  ELSE IF IsNum(Tok(toks, i)) THEN PNums(toks, i + 1, Append(acc, NumOf(toks[i])))
  ELSE PFail

\* a list of numerals at position i
PList(toks, i) == IF Tok(toks, i) = "[" THEN PNums(toks, i + 1, <<>>) ELSE PFail

RECURSIVE PEntries(_, _, _)
\* entries (spell id, icon) up to the closing brace, from position i
PEntries(toks, i, acc) ==
  IF Tok(toks, i) = "}" THEN [ok |-> TRUE, val |-> acc, next |-> i + 1]
  ELSE IF IsNum(Tok(toks, i)) /\ (i + 1) \in DOMAIN toks
            /\ toks[i + 1] \notin {"{", "}", "[", "]"}
    THEN PEntries(toks, i + 2,
                  Append(acc, [spell_id |-> NumOf(toks[i]),
                               icon_url |-> IF toks[i + 1] = "-" THEN ""
                                            ELSE toks[i + 1]]))
  ELSE PFail

RECURSIVE PNodeSeq(_, _, _)
\* nodes up to the closing bracket, from position i
PNodeSeq(toks, i, acc) ==
  IF Tok(toks, i) = "]" THEN [ok |-> TRUE, val |-> acc, next |-> i + 1]
  ELSE IF /\ Tok(toks, i) = "{" /\ IsNum(Tok(toks, i + 1))
          /\ Tok(toks, i + 2) \notin {"{", "}", "[", "]", "<eof>"}
          /\ IsNum(Tok(toks, i + 3))
    THEN LET deps == PList(toks, i + 4)
             es   == PEntries(toks, deps.next, <<>>)
         IN  IF deps.ok /\ es.ok
               THEN PNodeSeq(toks, es.next,
                             Append(acc, [id        |-> NumOf(toks[i + 1]),
                                          type      |-> toks[i + 2],
                                          max_ranks |-> NumOf(toks[i + 3]),
                                          entries   |-> es.val,
                                          locked_by |-> deps.val]))
               ELSE PFail
  ELSE PFail

\* a list of nodes at position i
PNodes(toks, i) ==
  IF Tok(toks, i) = "[" THEN PNodeSeq(toks, i + 1, <<>>) ELSE PFail

RECURSIVE PHeroes(_, _, _)
\* hero trees up to the closing bracket, from position i
PHeroes(toks, i, acc) ==
  IF Tok(toks, i) = "]" THEN [ok |-> TRUE, val |-> acc, next |-> i + 1]
  ELSE IF Tok(toks, i) = "{" /\ IsNum(Tok(toks, i + 1)) /\ (i + 2) \in DOMAIN toks
    THEN LET nodes == PNodes(toks, i + 3)
         IN  IF nodes.ok /\ Tok(toks, nodes.next) = "}"
               THEN PHeroes(toks, nodes.next + 1,
                            Append(acc, [id |-> NumOf(toks[i + 1]),
                                         name |-> toks[i + 2],
                                         nodes |-> nodes.val]))
               ELSE PFail
  ELSE PFail

\* The empty object: a dict in which every .get() answers None.
EmptyDict == [class_nodes |-> <<>>, spec_nodes |-> <<>>, hero_trees |-> <<>>,
              all_node_ids |-> <<>>]

\* json.load(f): [ok, isDict, val]; ok is FALSE where json.load raises
JsonLoad(toks) ==
  LET bad == [ok |-> FALSE, isDict |-> FALSE, val |-> EmptyDict]
  IN
  IF toks = <<"null">> THEN [ok |-> TRUE, isDict |-> FALSE, val |-> EmptyDict]
  ELSE IF toks = <<"{", "}">> THEN [ok |-> TRUE, isDict |-> TRUE, val |-> EmptyDict]
  ELSE IF Tok(toks, 1) # "{" \/ Tok(toks, 2) # "class_nodes" THEN bad
  ELSE
    LET c == PNodes(toks, 3) IN
    IF ~c.ok \/ Tok(toks, c.next) # "spec_nodes" THEN bad
    ELSE
      LET s == PNodes(toks, c.next + 1) IN
      IF ~s.ok \/ Tok(toks, s.next) # "hero_trees" \/ Tok(toks, s.next + 1) # "["
        THEN bad
      ELSE
        LET h == PHeroes(toks, s.next + 2, <<>>) IN
        IF ~h.ok \/ Tok(toks, h.next) # "all_node_ids" THEN bad
        ELSE
          LET a == PList(toks, h.next + 1) IN
          IF ~a.ok \/ Tok(toks, a.next) # "}" \/ a.next # Len(toks) THEN bad
          ELSE [ok |-> TRUE, isDict |-> TRUE,
                val |-> [class_nodes  |-> c.val,
                         spec_nodes   |-> s.val,
                         hero_trees   |-> h.val,
                         all_node_ids |-> a.val]]

(***************************************************************************)
(* Cache Store on the disk: files[key] is <<>> when cache_file does not    *)
(* exist and <<text>> when it does.                                        *)
(***************************************************************************)
\* engine.py 853: the file name f'{class_slug}_{spec_slug}.json' in cache_dir
Key(class_slug, spec_slug) == class_slug \o "_" \o spec_slug \o ".json"
Keys == {Key(c, sp) : c \in ClassSlugs, sp \in SpecSlugs}

\* A faulty variant of CacheValid that also wants hero_trees: an entry with
\* class and spec nodes but no hero tree would be re-fetched.
CacheValid_hero(cached) ==
  cached.class_nodes # <<>> /\ cached.spec_nodes # <<>> /\ cached.hero_trees # <<>>

\* engine.py 858: cached.get('class_nodes') and cached.get('spec_nodes')
CacheValid(cached) == cached.class_nodes # <<>> /\ cached.spec_nodes # <<>>

\* A faulty variant of Load that never finds an entry: every request
\* re-fetches and rewrites the file.
Load_never(fs, key) == <<>>

\* A faulty variant of Load that trusts whatever file exists: no try/except
\* around the parse and no validity check.
Load_trusting(fs, key) ==
  IF fs[key] = <<>> THEN <<>> ELSE <<JsonLoad(fs[key][1]).val>>

\* engine.py 854-864: <<cached>> on a hit, <<>> on a miss
Load(fs, key) ==
  IF fs[key] = <<>> THEN <<>>
  ELSE LET cached == JsonLoad(fs[key][1])
       IN  IF cached.ok /\ cached.isDict /\ CacheValid(cached.val)
             THEN <<cached.val>> ELSE <<>>

\* engine.py 869: tree and tree.get('class_nodes'); tree is <<>> for None
Storable(tree) == tree # <<>> /\ tree[1].class_nodes # <<>>

(***************************************************************************)
(* Commands, messages and the roster.                                      *)
(***************************************************************************)
Names  == {"Thrall", "thrall"}
Realms == {"Draenor"}

\* the names the server may answer with: those typed, and one more character
AllNames  == Names \cup {"Jaina"}
AllRealms == Realms \cup {"Silvermoon"}

\* str.lower()
Lower(str) ==
  CASE str = "Thrall"     -> "thrall"
    [] str = "Jaina"      -> "jaina"
    [] str = "Draenor"    -> "draenor"
    [] str = "Silvermoon" -> "silvermoon"
    [] OTHER              -> str

Cmd(name, nparts, region, a, b) ==
  [name |-> name, nparts |-> nparts, region |-> region, a |-> a, b |-> b]
NoCmd == Cmd("", 0, "", "", "")
\* FETCH_TALENT_TREE:region:class_slug:spec_slug
Fetch(region, class_slug, spec_slug) ==
  Cmd("FETCH_TALENT_TREE", 4, region, class_slug, spec_slug)
\* FETCH_TALENT_TREE:class_slug:spec_slug, a field short: len(parts) is 3
FetchShort(class_slug, spec_slug) ==
  Cmd("FETCH_TALENT_TREE", 3, "", class_slug, spec_slug)
ClearCmd == Cmd("CLEAR_TALENT_CACHE", 1, "", "", "")
\* ADD_CHARACTER:region:realm:name
AddCmd(region, realm, name) == Cmd("ADD_CHARACTER", 4, region, realm, name)
\* DELETE_CHARACTER:name:realm
DeleteCmd(name, realm) == Cmd("DELETE_CHARACTER", 3, "", name, realm)
\* TOGGLE_ACTIVITY:name:realm:activity
\* (the activity travels in the field the command has no region for)
ToggleCmd(name, realm, activity) == Cmd("TOGGLE_ACTIVITY", 4, activity, name, realm)
ExitCmd == Cmd("EXIT", 1, "", "", "")

Commands ==
  {Fetch(r, "mage", "fire") : r \in Regions}
    \cup {Fetch("eu", "mage", "frost"), Fetch("eu", "bard", "fire")}
    \cup {FetchShort("mage", "fire"), ClearCmd, ExitCmd}
    \cup {AddCmd("eu", r, n) : r \in Realms, n \in Names}
    \cup {DeleteCmd(n, r) : n \in Names, r \in Realms}

\* what emit() prints: one JSON object; tree is <<>> or <<tree>>
Msg(status, class_slug, spec_slug, tree, message) ==
  [status |-> status, class_slug |-> class_slug, spec_slug |-> spec_slug,
   tree |-> tree, message |-> message]
StatusMsg(status) == Msg(status, "", "", <<>>, "")

\* engine.py 603-608: the activities of a new character, all available
Activities == {"Raid", "Mythic+", "Expeditions", "World Quests"}

Character(name, realm) ==
  [name |-> name, realm |-> realm, activities |-> [a \in Activities |-> "available"]]

\* engine.py 634-637: an activity the character does not have is left alone
toggle_activity(char, activity_name) ==
  IF activity_name \in DOMAIN char.activities
    THEN [char EXCEPT !.activities[activity_name] =
            IF @ = "available" THEN "completed" ELSE "available"]
    ELSE char

\* a search that tells "Thrall" from "thrall"
find_character_exact(chars, name, realm) ==
  LET hits == {i \in DOMAIN chars :
                 chars[i].name = name /\ chars[i].realm = realm}
  IN  IF hits = {} THEN 0 ELSE CHOOSE i \in hits : \A j \in hits : i <= j

\* engine.py 682-684: the index of the first match, 0 for None
find_character(chars, name, realm) ==
  LET hits == {i \in DOMAIN chars :
                 /\ Lower(chars[i].name) = Lower(name)
                 /\ Lower(chars[i].realm) = Lower(realm)}
  IN  IF hits = {} THEN 0 ELSE CHOOSE i \in hits : \A j \in hits : i <= j

\* list.remove(char): the list without its element at index i
RemoveAt(chars, i) ==
  [j \in 1..(Len(chars) - 1) |-> IF j < i THEN chars[j] ELSE chars[j + 1]]

(***************************************************************************)
(* What the environment may do in a run: the commands typed, the answers   *)
(* upstream gives, and the faults that occur.                              *)
(***************************************************************************)
HeroFire == [isDict |-> TRUE, id |-> 4, name |-> "Sunfury",
             specs |-> <<[kind |-> "int", hasId |-> TRUE, id |-> 63]>>,
             nodes |-> <<Node(7, <<>>)>>]

RawTree(c, s, h) ==
  [class_talent_nodes |-> c, spec_talent_nodes |-> s, hero_talent_trees |-> h]

RawTrees ==
  { RawTree(<<Node(2, <<5>>), JunkNode, Node(1, <<>>)>>, <<Node(3, <<>>)>>,
            <<HeroFire>>),
    RawTree(<<Node(1, <<>>)>>, <<>>, <<>>),
    RawTree(<<>>, <<Node(3, <<>>)>>, <<>>),
    RawTree(<<JunkNode>>, <<>>, <<>>),
    RawTree(<<DriftNode(1)>>, <<Node(3, <<>>)>>, <<>>) }

SpecData(ref, trees) == [spec_talent_tree |-> ref, talent_trees |-> trees]

\* list(spec_data.keys()): the keys of the specialization-detail answer
KeysOf(spec_data) ==
  <<"id", "name">>
    \o (IF spec_data.spec_talent_tree.kind # "none"
          THEN <<"spec_talent_tree">> ELSE <<>>)
    \o (IF spec_data.talent_trees # <<>> THEN <<"talent_trees">> ELSE <<>>)

RECURSIVE Joined(_)
\* the reprs of the strings of a list, separated by ", "
Joined(strs) ==
  IF strs = <<>> THEN ""
  ELSE IF Len(strs) = 1 THEN "'" \o strs[1] \o "'"
  ELSE "'" \o strs[1] \o "', " \o Joined(Tail(strs))

\* str() of a list of strings
ListText(strs) == "[" \o Joined(strs) \o "]"

\* str(spec_tree_ref): the reference itself, a string or a dict with its keys
RefText(ref) ==
  CASE ref.kind = "str"  -> "talent-tree"
    [] ref.kind = "int"  -> ToString(ref.int)
    [] ref.kind = "dict" ->
         "{" \o Joined((IF ref.key.kind # "none" THEN <<"key">> ELSE <<>>)
                        \o (IF ref.id # 0 THEN <<"id">> ELSE <<"name">>)) \o "}"
    [] OTHER             -> "None"

SpecDatas ==
  { SpecData(HrefRef(<<"data", "wow", "talent-tree", "7",
                       "playable-specialization", "63">>, 8), <<>>),
    SpecData(NoRef, <<>>),
    SpecData(StrRef, <<>>) }

\* what a sibling spec's tree call answers: <<>> when it fails, else <<tree>>
SibTree == RawTree(<<Node(9, <<>>)>>, <<>>, <<>>)

AllFaults == {"health", "transport", "forbidden", "token", "spec", "upstream",
              "tree", "icon", "timeout", "mkdir", "open", "write", "lookup"}

FullEnv == [cmds |-> Commands, faults |-> AllFaults, specDatas |-> SpecDatas,
            rawTrees |-> RawTrees, sibAnswers |-> {<<SibTree>>}]

ConcEnv == [cmds |-> {Fetch("eu", "mage", "fire")}, faults |-> {},
            specDatas |-> {SpecData(IntRef(7), <<>>)},
            rawTrees |-> {RawTree(<<Node(1, <<>>)>>, <<Node(3, <<>>)>>, <<>>)},
            sibAnswers |-> {<<>>}]

\* Hero trees as upstream may send them: the eligible specs named by id, by
\* object, by an object without id, by string, or not at all.
HeroSpec(kind, hasId, id) == [kind |-> kind, hasId |-> hasId, id |-> id]
Hero(id, name, specs, nodes) ==
  [isDict |-> TRUE, id |-> id, name |-> name, specs |-> specs, nodes |-> nodes]

HeroTrees ==
  << HeroFire,
     Hero(5, "Frostfire", <<HeroSpec("dict", TRUE, 64), HeroSpec("int", TRUE, 62)>>,
          <<Node(8, <<>>)>>),
     Hero(6, "Open", <<>>, <<Node(6, <<>>)>>),
     Hero(7, "Unnamed", <<HeroSpec("dict", FALSE, 0)>>, <<>>),
     Hero(8, "Texts", <<HeroSpec("str", FALSE, 0)>>, <<>>) >>

\* The payloads the server's stages are checked on: ordinary, repeated and
\* missing ids, choice nodes, prerequisites, and fields of drifted type.
ServerRawTrees ==
  { RawTree(<<Node(3, <<5>>), Node(1, <<>>), Node(2, <<6, 7>>)>>,
            <<Node(4, <<>>)>>, HeroTrees),
    RawTree(<<Node(2, <<>>), Node(2, <<5>>)>>, <<Node(3, <<>>)>>, <<>>),
    RawTree(<<NoIdNode, Node(1, <<>>), NoIdNode>>, <<>>, <<>>),
    RawTree(<<RawNode(1, NoType, Absent,
                      Ranks(<<ChoiceRank(<<5, 6>>), Rank(7)>>)),
              RawNode(2, StrType("CHOICE"), Absent, Ranks(<<Rank(5)>>)),
              RawNode(3, DictType("PASSIVE"), Absent,
                      Ranks(<<Rank(5), ChoiceRank(<<6>>)>>)),
              RawNode(6, DictType("CHOICE"), Absent,
                      Ranks(<<Rank(5), Rank(6)>>))>>,
            <<RawNode(4, StrType("ACTIVE"), Absent, Ranks(<<ChoiceRank(<<7>>)>>)),
              RawNode(5, NoType, Absent,
                      Ranks(<<[ChoiceRank(<<>>) EXCEPT !.choices =
                                 List(<<Choice(5), JunkChoice>>)]>>))>>,
            <<>>),
    RawTree(<<RawNode(1, NoType, List(<<IntDep(2), DictDep(3)>>), NoRanks),
              RawNode(2, NoType, List(<<DictDep(3), NoIdDep>>), NoRanks),
              RawNode(3, [kind |-> "int", type |-> ""], StrDrift(2), StrDrift(2))>>,
            <<Node(4, <<>>)>>, <<>>),
    RawTree(<<DriftNode(1)>>, <<Node(3, <<>>)>>, <<>>),
    RawTree(<<RawNode(1, NoType, IntDrift, NoRanks)>>, <<>>, <<>>),
    RawTree(<<Node(1, <<>>)>>,
            <<RawNode(2, NoType, Absent,
                      Ranks(<<[ChoiceRank(<<>>) EXCEPT !.choices = IntDrift]>>))>>,
            <<>>),
    RawTree(<<JunkNode>>, <<>>, <<>>) }

\* The specialization-detail answers: each encoding of the tree reference,
\* the fallback to talent_trees[0], and answers no id can be taken from.
TreeHref == <<"data", "wow", "talent-tree", "7", "playable-specialization", "63">>

ServerSpecDatas ==
  { SpecData(IntRef(7), <<>>),
    SpecData(HrefRef(TreeHref, 8), <<>>),
    SpecData([HrefRef(TreeHref, 0) EXCEPT !.key.kind = "str"], <<>>),
    SpecData(IdRef(8), <<>>),
    SpecData(HrefRef(<<"data", "wow", "talent-tree", "x">>, 8), <<>>),
    SpecData(HrefRef(<<"data", "wow", "tree", "7">>, 0), <<>>),
    SpecData(NoRef, <<IdRef(8)>>),
    SpecData(IntRef(0), <<>>),
    SpecData(NoRef, <<>>),
    SpecData(StrRef, <<>>),
    SpecData(IdRef(0), <<>>) }

SibTree2 == RawTree(<<>>, <<Node(8, <<>>)>>, <<Hero(6, "Open", <<>>, <<Node(6, <<>>)>>)>>)

\* The requests the endpoint is checked on: every pair of SPEC_IDS, a class
\* it does not have and specs a class of it does not have.
ServerRequests ==
  {Fetch("eu", c, sp) : c \in DOMAIN SPEC_IDS, sp \in {"fire", "holy", "frost"}}
    \cup UNION {{Fetch("us", c, sp) : sp \in DOMAIN SPEC_IDS[c]} : c \in DOMAIN SPEC_IDS}
    \cup {Fetch("eu", "bard", "fire"), Fetch("eu", "", "frost"),
          Fetch("eu", "Mage", "fire"), Fetch("eu", "fire", "mage")}

ServerEnv == [cmds |-> ServerRequests,
              faults |-> {"token", "spec", "upstream", "tree", "icon"},
              specDatas |-> ServerSpecDatas, rawTrees |-> ServerRawTrees,
              sibAnswers |-> {<<>>, <<SibTree>>, <<SibTree2>>}]

(***************************************************************************)
(* State.                                                                  *)
(***************************************************************************)
VARIABLES
  pc,              \* [Procs -> where the process is in the command loop]
  cmd,             \* [Procs -> the command being served]
  out,             \* [Procs -> what emit() printed while serving it]
  stages,          \* [Procs -> the pipeline states the request went through]
  calls,           \* [Procs -> the network calls issued while serving it]
  server_checked,  \* [Procs -> main's server_checked]
  characters,      \* [Procs -> main's characters]
  attempt,         \* [Procs -> _server_get's attempt]
  srv,             \* [Procs -> the server's locals for the request]
  tree,            \* [Procs -> main's cached / tree: <<>> is None]
  wpos,            \* [Procs -> the offset of the open cache file]
  pre,             \* [Procs -> the disk as it was when the command was read]
  cacheDir,        \* basedir/talent_tree_cache exists
  files,           \* [Keys -> <<>> or <<text>>] the files in it
  rosterFile       \* <<>> or <<characters>>: basedir/characters.json

procVars == <<pc, cmd, out, stages, calls, server_checked, characters, attempt,
              srv, tree, wpos, pre>>
diskVars == <<cacheDir, files, rosterFile>>
vars == <<procVars, diskVars>>

NoFiles == [k \in Keys |-> <<>>]

EmptyRaw == RawTree(<<>>, <<>>, <<>>)

\* engine.py 336 and 353-358: the executor of _attach_spell_icons. futures are
\* the spell ids in the order submitted, of which the first `started` have
\* been taken by a worker; running are the lookups in flight, done the ones
\* completed; icon_map holds the ids that yielded a url, failed the ids whose
\* lookup failed, noasset the ids answered without an icon asset; lookups
\* counts the requests sent per id.
NoPool == [futures |-> <<>>, started |-> 0, running |-> {}, done |-> {},
           icon_map |-> {}, failed |-> {}, noasset |-> {}, lookups |-> <<>>]

NoSrv == [spec_id |-> 0, spec_data |-> <<>>, tree_id |-> 0, raw |-> EmptyRaw,
          siblings |-> {}, all_node_ids |-> {}, parsed |-> <<>>, failed |-> "",
          status |-> 0, detail |-> "", body |-> <<>>, pool |-> NoPool,
          permit |-> FALSE, waited |-> FALSE, answers |-> <<>>]

\* Cache files left by earlier runs: a truncated text, a JSON null, a tree
\* whose class_nodes is empty, and a whole tree.
SeedTree == [class_nodes  |-> <<_parse_node(Node(1, <<>>))>>,
             spec_nodes   |-> <<_parse_node(Node(3, <<>>))>>,
             hero_trees   |-> <<>>,
             all_node_ids |-> <<1, 3>>]

SeedTexts ==
  { <<"{", "class_nodes", "[">>,
    <<"null">>,
    JsonDump([EmptyDict EXCEPT !.spec_nodes = <<_parse_node(Node(3, <<>>))>>]),
    JsonDump(SeedTree) }

InitRosters == {<<>>, <<Character("Thrall", "Draenor")>>}

\* engine.py 704-720: after load_data, check_resets and save_data
Init ==
  /\ pc = [p \in Procs |-> "Ready"]
  /\ cmd = [p \in Procs |-> NoCmd]
  /\ out = [p \in Procs |-> <<>>]
  /\ stages = [p \in Procs |-> <<>>]
  /\ calls = [p \in Procs |-> {}]
  /\ server_checked = [p \in Procs |-> FALSE]
  /\ \E r \in InitRosters :
       /\ characters = [p \in Procs |-> r]
       /\ rosterFile = <<r>>
  /\ attempt = [p \in Procs |-> 0]
  /\ srv = [p \in Procs |-> NoSrv]
  /\ tree = [p \in Procs |-> <<>>]
  /\ wpos = [p \in Procs |-> 0]
  /\ cacheDir \in BOOLEAN
  /\ \E seed \in {<<>>} \cup {<<t>> : t \in SeedTexts} :
       files = IF cacheDir THEN [NoFiles EXCEPT ![Key("mage", "fire")] = seed]
               ELSE NoFiles
  /\ pre = [p \in Procs |->
              [cacheDir |-> cacheDir, files |-> files, rosterFile |-> rosterFile]]

(***************************************************************************)
(* The command loop, engine.py 722-894.                                    *)
(***************************************************************************)
\* the branch of the if/elif chain a command takes
Dispatch(c) ==
  CASE c.name = "FETCH_TALENT_TREE"  -> IF c.nparts = 4 THEN "CacheCheck" ELSE "Done"
    [] c.name = "CLEAR_TALENT_CACHE" -> "Clear"
    [] c.name = "ADD_CHARACTER"      -> "AddCharacter"
    [] c.name = "AUTO_ADD"           -> IF c.nparts = 3 THEN "AutoAddCharacter" ELSE "Done"
    [] c.name = "DELETE_CHARACTER"   -> "DeleteCharacter"
    [] c.name = "TOGGLE_ACTIVITY"    -> "ToggleActivity"
    [] c.name = "EXIT"               -> "Exit"
    [] OTHER                         -> "Done"

\* the disk as a value
Disk == [cacheDir |-> cacheDir, files |-> files, rosterFile |-> rosterFile]

\* engine.py 722-725: the next line of stdin
ReadCommand(p, env) ==
  /\ pc[p] = "Ready"
  /\ \E c \in env.cmds :
       /\ cmd' = [cmd EXCEPT ![p] = c]
       /\ pc' = [pc EXCEPT ![p] = IF server_checked[p] THEN Dispatch(c) ELSE "Health"]
  /\ pre' = [pre EXCEPT ![p] = Disk]
  /\ UNCHANGED <<out, stages, calls, attempt, srv, tree, wpos, server_checked,
                 characters, diskVars>>

\* engine.py 722: the loop body is over (its end, or continue) and the loop
\* comes back for the next line; the iteration's locals are dead
Return(p) ==
  /\ pc[p] = "Done"
  /\ pc' = [pc EXCEPT ![p] = "Ready"]
  /\ cmd' = [cmd EXCEPT ![p] = NoCmd]
  /\ out' = [out EXCEPT ![p] = <<>>]
  /\ stages' = [stages EXCEPT ![p] = <<>>]
  /\ calls' = [calls EXCEPT ![p] = {}]
  /\ attempt' = [attempt EXCEPT ![p] = 0]
  /\ srv' = [srv EXCEPT ![p] = NoSrv]
  /\ tree' = [tree EXCEPT ![p] = <<>>]
  /\ wpos' = [wpos EXCEPT ![p] = 0]
  /\ pre' = [pre EXCEPT ![p] = Disk]
  /\ UNCHANGED <<server_checked, characters, diskVars>>

\* engine.py 727-744: the health check before the first command is served
HealthCheck(p, env) ==
  /\ pc[p] = "Health"
  /\ server_checked' = [server_checked EXCEPT ![p] = TRUE]
  /\ \E connected \in {TRUE} \cup {FALSE : f \in env.faults \cap {"health"}} :
       out' = [out EXCEPT ![p] = @ \o <<StatusMsg("connecting"),
                 StatusMsg(IF connected THEN "connected" ELSE "connect_failed")>>]
  /\ calls' = [calls EXCEPT ![p] = @ \cup {"health"}]
  /\ pc' = [pc EXCEPT ![p] = Dispatch(cmd[p])]
  /\ UNCHANGED <<cmd, stages, characters, attempt, srv, tree, wpos, pre,
                 diskVars>>

\* The request ends: msg is emitted and the loop body is over.
Finish(p, msg, stage) ==
  /\ out' = [out EXCEPT ![p] = Append(@, msg)]
  /\ stages' = [stages EXCEPT ![p] = Append(@, stage)]
  /\ pc' = [pc EXCEPT ![p] = "Done"]

\* engine.py 879: the message of the else branch
NoData(class_slug, spec_slug) ==
  "Server returned no data for " \o class_slug \o "/" \o spec_slug

\* A faulty variant of TreeError that does not echo the request.
TreeError_noecho(p, message) == Msg("talent_tree_error", "", "", <<>>, message)

\* engine.py 877-879 and 882-884 (message str(e))
TreeError(p, message) ==
  Msg("talent_tree_error", cmd[p].a, cmd[p].b, <<>>, message)

\* engine.py 860-861 and 874-875
TreeMsg(p, t) == Msg("talent_tree", cmd[p].a, cmd[p].b, t, "")

\* engine.py 851-864: FETCH_TALENT_TREE, the cache check
CacheCheck(p) ==
  /\ pc[p] = "CacheCheck"
  /\ LET cached == Load(files, Key(cmd[p].a, cmd[p].b))
     IN  IF cached # <<>>
           THEN /\ tree' = [tree EXCEPT ![p] = cached]
                /\ out' = [out EXCEPT ![p] = Append(@, TreeMsg(p, cached))]
                /\ stages' = [stages EXCEPT ![p] = <<"CacheCheck", "Done">>]
                /\ pc' = [pc EXCEPT ![p] = "Done"]
           ELSE /\ stages' = [stages EXCEPT ![p] = <<"CacheCheck">>]
                /\ pc' = [pc EXCEPT ![p] = "ServerGet"]
                /\ UNCHANGED <<tree, out>>
  /\ UNCHANGED <<cmd, calls, server_checked, characters, attempt, srv, wpos, pre,
                 diskVars>>

\* engine.py 526-541 (to the request being sent) and 38-45: one attempt of
\* _server_get; the request fails, is refused by the auth middleware, or
\* reaches the endpoint
ServerGet(p, env) ==
  /\ pc[p] = "ServerGet"
  /\ calls' = [calls EXCEPT ![p] = @ \cup {"server"}]
  /\ \/ /\ "transport" \in env.faults
        /\ Finish(p, TreeError(p, NoData(cmd[p].a, cmd[p].b)), "Failed")
        /\ UNCHANGED attempt
     \/ /\ "forbidden" \in env.faults
        /\ IF attempt[p] = 0
             THEN /\ attempt' = [attempt EXCEPT ![p] = 1]
                  /\ UNCHANGED <<out, stages, pc>>
             ELSE /\ Finish(p, TreeError(p, NoData(cmd[p].a, cmd[p].b)), "Failed")
                  /\ UNCHANGED attempt
     \/ /\ pc' = [pc EXCEPT ![p] = "Resolving"]
        /\ stages' = [stages EXCEPT ![p] = Append(@, "Resolving")]
        \* the answer to this attempt is the last: attempt is not read again
        /\ attempt' = [attempt EXCEPT ![p] = 0]
        /\ UNCHANGED out
  /\ UNCHANGED <<cmd, server_checked, characters, srv, tree, wpos, pre,
                 diskVars>>

\* engine.py 494-495: the endpoint answers (ValueError, ConnectionError) with
\* 400 and the exception's text; any other exception is a 500. rec is the
\* server's locals when the exception is raised.
RaiseFrom(p, rec, status, detail) ==
  /\ srv' = [srv EXCEPT ![p] = [rec EXCEPT !.status = status, !.detail = detail]]
  /\ pc' = [pc EXCEPT ![p] = "ServerReply"]
  /\ UNCHANGED stages

Raise(p, status, detail) == RaiseFrom(p, srv[p], status, detail)

\* engine.py 70-75: an upstream call that does not succeed: _blizzard_get
\* answers None for a status other than 200 (the caller raises ConnectionError
\* with detail), and lets the exception of requests.get through (a timeout, a
\* refused connection), which the endpoint does not catch
CallFails(p, rec, env, call, detail) ==
  \/ /\ call \in env.faults
     /\ RaiseFrom(p, [rec EXCEPT !.failed = call], 400, detail)
  \/ /\ "upstream" \in env.faults
     /\ RaiseFrom(p, [rec EXCEPT !.failed = call], 500, "Internal Server Error")

\* engine.py 371-413: the resolver
Resolving(p, env) ==
  /\ pc[p] = "Resolving"
  /\ LET spec_id == SpecIdOf(cmd[p].a, cmd[p].b)
         found   == [srv[p] EXCEPT !.spec_id = spec_id]
     IN
     IF spec_id = 0
       THEN /\ Raise(p, 400, "Unknown spec: " \o cmd[p].a \o "/" \o cmd[p].b)
            /\ UNCHANGED calls
     ELSE
       \* engine.py 52-66 and 375-377: get_access_token answers None
       \/ /\ "token" \in env.faults
          /\ calls' = [calls EXCEPT ![p] = @ \cup {"token"}]
          /\ RaiseFrom(p, found, 400, "Failed to get Blizzard API token")
       \/ /\ calls' = [calls EXCEPT ![p] = @ \cup {"token", "spec"}]
          /\ \/ CallFails(p, found, env, "spec",
                          "Blizzard API returned no data for spec "
                            \o ToString(spec_id))
             \/ \E spec_data \in env.specDatas :
                  LET rec == [found EXCEPT !.spec_data = <<spec_data>>]
                  IN
                  IF NoTreeRef(spec_data)
                    THEN RaiseFrom(p, rec, 400,
                                   "No talent tree reference found. Keys: "
                                     \o ListText(KeysOf(spec_data)))
                  ELSE IF TreeIdOf(TreeRefOf(spec_data)) = 0
                    THEN RaiseFrom(p, rec, 400,
                                   "Could not extract tree ID from: "
                                     \o RefText(TreeRefOf(spec_data)))
                  ELSE
                    /\ srv' = [srv EXCEPT ![p] =
                                 [rec EXCEPT !.tree_id = TreeIdOf(TreeRefOf(spec_data))]]
                    /\ pc' = [pc EXCEPT ![p] = "FetchingTree"]
                    /\ stages' = [stages EXCEPT ![p] = Append(@, "FetchingTree")]
  /\ UNCHANGED <<cmd, out, server_checked, characters, attempt, tree, wpos, pre,
                 diskVars>>

\* engine.py 437-440: the ids of the class's other specs
SiblingSpecs(class_slug, spec_id) ==
  {SPEC_IDS[class_slug][sp] : sp \in DOMAIN SPEC_IDS[class_slug]} \ {spec_id}

\* the tree's own node ids only: no sibling is asked
AllNodeIds_primary(raw_tree, sibs) == _collect_node_ids(raw_tree)

\* engine.py 435-448: the node ids of the tree and of the sibling answers that
\* arrived; sibs is a set of <<sib_id, <<>> or <<sib_data>> >>
AllNodeIds(raw_tree, sibs) ==
  _collect_node_ids(raw_tree)
    \cup UNION {_collect_node_ids(pair[2][1]) : pair \in {q \in sibs : q[2] # <<>>}}

\* engine.py 415-448: the tree fetcher, with the sibling specs' node ids
FetchingTree(p, env) ==
  /\ pc[p] = "FetchingTree"
  /\ \/ /\ calls' = [calls EXCEPT ![p] = @ \cup {"tree"}]
        /\ CallFails(p, srv[p], env, "tree",
                     "Blizzard API returned no data for tree "
                       \o ToString(srv[p].tree_id))
     \/ \E raw_tree \in env.rawTrees :
        \E answers \in [SiblingSpecs(cmd[p].a, srv[p].spec_id) -> env.sibAnswers] :
          LET sibs == {<<id, answers[id]>> :
                         id \in SiblingSpecs(cmd[p].a, srv[p].spec_id)}
          IN  /\ calls' = [calls EXCEPT ![p] = @ \cup {"tree", "sibling"}]
              /\ srv' = [srv EXCEPT ![p] =
                           [@ EXCEPT !.raw = raw_tree,
                                     !.siblings = sibs,
                                     !.all_node_ids = AllNodeIds(raw_tree, sibs)]]
              /\ pc' = [pc EXCEPT ![p] = "Normalizing"]
              /\ stages' = [stages EXCEPT ![p] = Append(@, "Normalizing")]
  /\ UNCHANGED <<cmd, out, server_checked, characters, attempt, tree, wpos, pre,
                 diskVars>>

\* a pipeline without the enricher: the endpoint answers with the graph as the
\* normalizer built it
Normalizing_unenriched(p) ==
  /\ pc[p] = "Normalizing"
  /\ IF ParseTreeRaises(srv[p].raw, srv[p].spec_id)
       THEN Raise(p, 500, "Internal Server Error")
       ELSE /\ LET parsed == _parse_talent_tree(srv[p].raw, srv[p].spec_id)
                   graph  == [class_nodes  |-> parsed.class_nodes,
                              spec_nodes   |-> parsed.spec_nodes,
                              hero_trees   |-> parsed.hero_trees,
                              all_node_ids |-> SortedInts(srv[p].all_node_ids)]
               IN  srv' = [srv EXCEPT ![p] =
                             [@ EXCEPT !.parsed = <<graph>>, !.status = 200,
                                       !.body = JsonDump(graph)]]
            /\ pc' = [pc EXCEPT ![p] = "ServerReply"]
            /\ UNCHANGED stages
  /\ UNCHANGED <<cmd, out, calls, server_checked, characters, attempt, tree, wpos,
                 pre, diskVars>>

\* engine.py 450-451: the normalizer
Normalizing(p) ==
  /\ pc[p] = "Normalizing"
  /\ IF ParseTreeRaises(srv[p].raw, srv[p].spec_id)
       THEN Raise(p, 500, "Internal Server Error")
       ELSE /\ LET parsed == _parse_talent_tree(srv[p].raw, srv[p].spec_id)
               IN  srv' = [srv EXCEPT ![p] = [@ EXCEPT !.parsed =
                       <<[class_nodes  |-> parsed.class_nodes,
                          spec_nodes   |-> parsed.spec_nodes,
                          hero_trees   |-> parsed.hero_trees,
                          all_node_ids |-> SortedInts(srv[p].all_node_ids)]>>]]
            /\ pc' = [pc EXCEPT ![p] = "EnrichingIcons"]
            /\ stages' = [stages EXCEPT ![p] = Append(@, "EnrichingIcons")]
  /\ UNCHANGED <<cmd, out, calls, server_checked, characters, attempt, tree, wpos,
                 pre, diskVars>>

\* the spell ids of all entries, 0 included
SpellIdsOf_withzero(nodes) ==
  UNION {{nodes[i].entries[j].spell_id : j \in DOMAIN nodes[i].entries} :
           i \in DOMAIN nodes}

\* engine.py 318-331: the distinct nonzero spell ids of all entries
SpellIdsOf(nodes) ==
  UNION {{nodes[i].entries[j].spell_id : j \in DOMAIN nodes[i].entries} :
           i \in DOMAIN nodes} \ {0}

AllSpellIds(parsed) ==
  SpellIdsOf(parsed.class_nodes) \cup SpellIdsOf(parsed.spec_nodes)
    \cup UNION {SpellIdsOf(parsed.hero_trees[i].nodes) : i \in DOMAIN parsed.hero_trees}

\* the icon asset upstream holds for a spell
IconUrl(spell_id) == "icon" \o ToString(spell_id)

\* engine.py 360-368 for one node list: icon_url set where the id is in icon_map
AttachNodes(nodes, resolved) ==
  [i \in DOMAIN nodes |->
     [nodes[i] EXCEPT !.entries = [j \in DOMAIN nodes[i].entries |->
         LET e == nodes[i].entries[j]
         IN  IF e.spell_id # 0 /\ e.spell_id \in resolved
               THEN [spell_id |-> e.spell_id, icon_url |-> IconUrl(e.spell_id)]
               ELSE e]]]

\* no url is attached
_attach_spell_icons_none(parsed, resolved) == parsed

\* engine.py 317-368, given the spell ids whose lookup yielded an icon
_attach_spell_icons(parsed, resolved) ==
  [class_nodes  |-> AttachNodes(parsed.class_nodes, resolved),
   spec_nodes   |-> AttachNodes(parsed.spec_nodes, resolved),
   hero_trees   |-> [i \in DOMAIN parsed.hero_trees |->
                       [id |-> parsed.hero_trees[i].id,
                        name |-> parsed.hero_trees[i].name,
                        nodes |-> AttachNodes(parsed.hero_trees[i].nodes, resolved)]],
   all_node_ids |-> parsed.all_node_ids]

\* engine.py 453-454 and 490-493: the icon enricher, then the endpoint returns
\* the tree as the body of a 200
EnrichingIcons(p, env) ==
  /\ pc[p] = "EnrichingIcons"
  /\ LET parsed == srv[p].parsed[1]
         ids    == AllSpellIds(parsed)
     IN  \E resolved \in IF "icon" \in env.faults THEN SUBSET ids ELSE {ids} :
           /\ srv' = [srv EXCEPT ![p] =
                [@ EXCEPT !.parsed = <<_attach_spell_icons(parsed, resolved)>>,
                          !.status = 200,
                          !.body = JsonDump(_attach_spell_icons(parsed, resolved))]]
           /\ calls' = [calls EXCEPT ![p] = @ \cup IF ids = {} THEN {} ELSE {"icon"}]
  /\ pc' = [pc EXCEPT ![p] = "ServerReply"]
  /\ UNCHANGED <<cmd, out, stages, server_checked, characters, attempt, tree, wpos,
                 pre, diskVars>>

\* engine.py 530-541: what _server_get returns for the answer, <<>> for None
_server_get(status, body, lost) ==
  IF status = 200 /\ ~lost THEN <<JsonLoad(body).val>> ELSE <<>>

\* engine.py 353: ThreadPoolExecutor(max_workers=12)
max_workers == 12

Reverse(s) == [i \in DOMAIN s |-> s[Len(s) + 1 - i]]

\* engine.py 318-334 and 353-354: the enricher step by step. The spell ids are
\* collected; none: the graph is returned as it is; else one lookup per id is
\* submitted to the executor, in the iteration order of the set
SubmitIcons(p) ==
  /\ pc[p] = "EnrichingIcons"
  /\ LET parsed == srv[p].parsed[1]
         ids    == AllSpellIds(parsed)
     IN  IF ids = {}
           THEN /\ srv' = [srv EXCEPT ![p] =
                     [@ EXCEPT !.status = 200, !.body = JsonDump(parsed)]]
                /\ pc' = [pc EXCEPT ![p] = "ServerReply"]
           ELSE \E order \in {SortedInts(ids), Reverse(SortedInts(ids))} :
                  /\ srv' = [srv EXCEPT ![p] = [@ EXCEPT !.pool =
                       [NoPool EXCEPT !.futures = order,
                                      !.lookups = [sid \in ids |-> 0]]]]
                  /\ pc' = [pc EXCEPT ![p] = "IconPool"]
  /\ UNCHANGED <<cmd, out, stages, calls, server_checked, characters, attempt,
                 tree, wpos, pre, diskVars>>

\* an executor without ceiling: every submitted lookup gets a thread at once
IdleWorker_unbounded(running) == TRUE

\* engine.py 353: a worker of the pool is free
IdleWorker(running) == Cardinality(running) < max_workers

\* engine.py 338-344: a worker takes the next future and sends its request
StartLookup(p) ==
  /\ pc[p] = "IconPool"
  /\ LET pool == srv[p].pool
     IN  /\ pool.started < Len(pool.futures)
         /\ IdleWorker(pool.running)
         /\ LET sid == pool.futures[pool.started + 1]
            IN  srv' = [srv EXCEPT ![p] = [@ EXCEPT !.pool =
                  [pool EXCEPT !.started = @ + 1,
                               !.running = @ \cup {sid},
                               !.lookups = [@ EXCEPT ![sid] = @ + 1]]]]
  /\ calls' = [calls EXCEPT ![p] = @ \cup {"icon"}]
  /\ UNCHANGED <<pc, cmd, out, stages, server_checked, characters, attempt, tree,
                 wpos, pre, diskVars>>

\* engine.py 345-351: what a lookup ends with: the url of the icon asset, a
\* 200 without icon asset, or a failure (another status, a timeout, an
\* exception), which _fetch_one_icon turns into (spell_id, None)
LookupOutcomes(env, sid) ==
  {"url"} \cup (IF sid \in env.flaky
                  THEN {"fail" : f \in env.faults \cap {"icon"}}
                         \cup {"none" : f \in env.faults \cap {"noasset"}}
                  ELSE {})

\* engine.py 345-351 and 355-358: a lookup completes and its result is taken
\* into icon_map
FinishLookup(p, env) ==
  /\ pc[p] = "IconPool"
  /\ \E sid \in srv[p].pool.running : \E outcome \in LookupOutcomes(env, sid) :
       srv' = [srv EXCEPT ![p] = [@ EXCEPT !.pool =
         [@ EXCEPT !.running = @ \ {sid},
                   !.done = @ \cup {sid},
                   !.icon_map = IF outcome = "url" THEN @ \cup {sid} ELSE @,
                   !.failed = IF outcome = "fail" THEN @ \cup {sid} ELSE @,
                   !.noasset = IF outcome = "none" THEN @ \cup {sid} ELSE @]]]
  /\ UNCHANGED <<pc, cmd, out, stages, calls, server_checked, characters, attempt,
                 tree, wpos, pre, diskVars>>

\* the urls are attached as soon as one lookup has completed
AllCompleted_first(pool) == pool.done # {}

\* engine.py 353-358: the with block is left, and as_completed is exhausted,
\* when every future has completed
AllCompleted(pool) == pool.done = Range(pool.futures)

\* engine.py 360-368, 453-454 and 490-493: after the join the urls of icon_map
\* are attached, and the endpoint returns the tree as the body of a 200
AttachIcons(p) ==
  /\ pc[p] = "IconPool"
  /\ AllCompleted(srv[p].pool)
  /\ LET tree_out == _attach_spell_icons(srv[p].parsed[1], srv[p].pool.icon_map)
     IN  srv' = [srv EXCEPT ![p] =
                   [@ EXCEPT !.parsed = <<tree_out>>, !.status = 200,
                             !.body = JsonDump(tree_out)]]
  /\ pc' = [pc EXCEPT ![p] = "ServerReply"]
  /\ UNCHANGED <<cmd, out, stages, calls, server_checked, characters, attempt,
                 tree, wpos, pre, diskVars>>

\* engine.py 868-869 and 876-879: the answer arrives (or the read times out),
\* and the tree is stored only if it has class_nodes
ServerReply(p, env) ==
  /\ pc[p] = "ServerReply"
  /\ \E lost \in {FALSE} \cup {TRUE : f \in env.faults \cap {"timeout"}} :
       LET t == _server_get(srv[p].status, srv[p].body, lost)
       IN  /\ tree' = [tree EXCEPT ![p] = t]
           /\ IF Storable(t)
                THEN /\ pc' = [pc EXCEPT ![p] = "Caching"]
                     /\ stages' = [stages EXCEPT ![p] = Append(@, "Caching")]
                     /\ UNCHANGED out
                ELSE Finish(p, TreeError(p, NoData(cmd[p].a, cmd[p].b)), "Failed")
  /\ UNCHANGED <<cmd, calls, server_checked, characters, attempt, srv, wpos, pre,
                 diskVars>>

\* engine.py 870 and 880-884: os.makedirs(cache_dir, exist_ok=True)
Caching(p, env) ==
  /\ pc[p] = "Caching"
  /\ \/ /\ "mkdir" \in env.faults
        /\ Finish(p, TreeError(p, "OSError"), "Failed")
        /\ UNCHANGED cacheDir
     \/ /\ cacheDir' = TRUE
        /\ pc' = [pc EXCEPT ![p] = "CacheOpen"]
        /\ UNCHANGED <<out, stages>>
  /\ UNCHANGED <<cmd, calls, server_checked, characters, attempt, srv, tree, wpos,
                 pre, files, rosterFile>>

\* engine.py 871 and 880-884: open(cache_file, 'w') truncates the file
CacheOpen(p, env) ==
  /\ pc[p] = "CacheOpen"
  /\ \/ /\ "open" \in env.faults
        /\ Finish(p, TreeError(p, "OSError"), "Failed")
        /\ UNCHANGED <<files, wpos>>
     \/ /\ cacheDir
        /\ files' = [files EXCEPT ![Key(cmd[p].a, cmd[p].b)] = << <<>> >>]
        /\ wpos' = [wpos EXCEPT ![p] = 0]
        /\ pc' = [pc EXCEPT ![p] = "CacheWrite"]
        /\ UNCHANGED <<out, stages>>
  /\ UNCHANGED <<cmd, calls, server_checked, characters, attempt, srv, tree, pre,
                 cacheDir, rosterFile>>

\* write(2) of chunk at offset pos: bytes past the end of the file extend it,
\* and a gap left by another writer's truncation reads as zero bytes
WriteAt(text, pos, chunk) ==
  LET n == IF Len(text) > pos + Len(chunk) THEN Len(text) ELSE pos + Len(chunk)
  IN  [i \in 1..n |->
         IF i > pos /\ i <= pos + Len(chunk) THEN chunk[i - pos]
         ELSE IF i <= Len(text) THEN text[i]
         ELSE "\\0"]

\* the tokens json.dump has handed over once one more buffer is flushed
NextFlush(text, pos) == IF pos + ChunkLen < Len(text) THEN pos + ChunkLen ELSE Len(text)

\* engine.py 872-875 and 880-884: json.dump writes the text a buffer at a time;
\* after the last one the file is closed and the tree is emitted
CacheWrite(p, env) ==
  /\ pc[p] = "CacheWrite"
  /\ LET key  == Key(cmd[p].a, cmd[p].b)
         text == JsonDump(tree[p][1])
         n    == NextFlush(text, wpos[p])
     IN  \/ /\ "write" \in env.faults
            /\ Finish(p, TreeError(p, "OSError"), "Failed")
            /\ UNCHANGED <<files, wpos>>
         \/ /\ files[key] # <<>>
            /\ files' = [files EXCEPT ![key] =
                           <<WriteAt(files[key][1], wpos[p], SubSeq(text, wpos[p] + 1, n))>>]
            /\ wpos' = [wpos EXCEPT ![p] = n]
            /\ IF n = Len(text)
                 THEN Finish(p, TreeMsg(p, tree[p]), "Done")
                 ELSE UNCHANGED <<out, stages, pc>>
  /\ UNCHANGED <<cmd, calls, server_checked, characters, attempt, srv, tree, pre,
                 cacheDir, rosterFile>>

\* A faulty variant of rmtree that removes nothing.
rmtree_noop(disk) == disk

\* A faulty variant of rmtree that is given basedir: the roster file goes too.
rmtree_basedir(disk) ==
  [disk EXCEPT !.cacheDir = FALSE, !.files = NoFiles, !.rosterFile = <<>>]

\* engine.py 887-889: shutil.rmtree(cache_dir) on the disk: basedir's
\* talent_tree_cache and every file in it are removed
rmtree(disk) == [disk EXCEPT !.cacheDir = FALSE, !.files = NoFiles]

\* engine.py 886-890: CLEAR_TALENT_CACHE
Clear(p) ==
  /\ pc[p] = "Clear"
  /\ LET disk == IF cacheDir THEN rmtree(Disk) ELSE Disk
     IN  /\ cacheDir' = disk.cacheDir
         /\ files' = disk.files
         /\ rosterFile' = disk.rosterFile
  /\ out' = [out EXCEPT ![p] =
               Append(@, Msg("success", "", "", <<>>, "Talent tree cache cleared"))]
  /\ pc' = [pc EXCEPT ![p] = "Done"]
  /\ UNCHANGED <<cmd, stages, calls, server_checked, characters, attempt, srv, tree,
                 wpos, pre>>

\* engine.py 566-572: save_data
save_data(chars) == <<chars>>

\* engine.py 755-767: ADD_CHARACTER
AddCharacter(p, env) ==
  /\ pc[p] = "AddCharacter"
  /\ calls' = [calls EXCEPT ![p] = @ \cup {"server"}]
  /\ \/ /\ "lookup" \in env.faults
        /\ out' = [out EXCEPT ![p] = Append(@, StatusMsg("not_found"))]
        /\ UNCHANGED <<characters, rosterFile>>
     \/ \E name \in {n \in AllNames : Lower(n) = Lower(cmd[p].b)} :
          LET char == Character(name, cmd[p].a)
          IN  /\ IF find_character(characters[p], char.name, char.realm) = 0
                   THEN /\ characters' = [characters EXCEPT ![p] = Append(@, char)]
                        /\ rosterFile' = save_data(characters'[p])
                   ELSE UNCHANGED <<characters, rosterFile>>
              /\ out' = [out EXCEPT ![p] = Append(@, StatusMsg("added"))]
  /\ pc' = [pc EXCEPT ![p] = "Done"]
  /\ UNCHANGED <<cmd, stages, server_checked, attempt, srv, tree, wpos, pre,
                 cacheDir, files>>

\* engine.py 783-791: DELETE_CHARACTER
DeleteCharacter(p) ==
  /\ pc[p] = "DeleteCharacter"
  /\ LET i == find_character(characters[p], cmd[p].a, cmd[p].b)
     IN  IF i # 0
           THEN /\ characters' = [characters EXCEPT ![p] = RemoveAt(@, i)]
                /\ rosterFile' = save_data(characters'[p])
                /\ out' = [out EXCEPT ![p] = Append(@, StatusMsg("deleted"))]
           ELSE UNCHANGED <<characters, rosterFile, out>>
  /\ pc' = [pc EXCEPT ![p] = "Done"]
  /\ UNCHANGED <<cmd, stages, calls, server_checked, attempt, srv, tree, wpos, pre,
                 cacheDir, files>>

\* engine.py 892-894: EXIT
Exit(p) ==
  /\ pc[p] = "Exit"
  /\ rosterFile' = save_data(characters[p])
  /\ pc' = [pc EXCEPT ![p] = "Exited"]
  /\ UNCHANGED <<cmd, out, stages, calls, server_checked, characters, attempt, srv,
                 tree, wpos, pre, cacheDir, files>>

(***************************************************************************)
(* Specifications.                                                         *)
(***************************************************************************)
\* the steps of one FETCH_TALENT_TREE request
FetchStep(p, env) ==
  \/ CacheCheck(p)
  \/ ServerGet(p, env)
  \/ Resolving(p, env)
  \/ FetchingTree(p, env)
  \/ Normalizing(p)
  \/ EnrichingIcons(p, env)
  \/ ServerReply(p, env)
  \/ Caching(p, env)
  \/ CacheOpen(p, env)
  \/ CacheWrite(p, env)

\* One engine process serving every command.
Next ==
  \/ ReadCommand(1, FullEnv)
  \/ Return(1)
  \/ HealthCheck(1, FullEnv)
  \/ FetchStep(1, FullEnv)
  \/ Clear(1)
  \/ AddCharacter(1, FullEnv)
  \/ DeleteCharacter(1)
  \/ Exit(1)

Spec == Init /\ [][Next]_vars

\* Two engine processes on one data directory, a fresh one.
InitConc == Init /\ ~cacheDir /\ rosterFile = << <<>> >>

NextConc ==
  \E p \in Procs :
    \/ ReadCommand(p, ConcEnv)
    \/ Return(p)
    \/ HealthCheck(p, ConcEnv)
    \/ FetchStep(p, ConcEnv)

SpecConc == InitConc /\ [][NextConc]_vars

\* The server alone: engine.py 490-495, the endpoint has been entered with
\* some request, and the stages of _fetch_talent_tree_from_blizzard run.
InitServer ==
  /\ \E req \in ServerEnv.cmds :
       cmd = [p \in Procs |-> IF p = 1 THEN req ELSE NoCmd]
  /\ pc = [p \in Procs |-> IF p = 1 THEN "Resolving" ELSE "Ready"]
  /\ stages = [p \in Procs |-> IF p = 1 THEN <<"Resolving">> ELSE <<>>]
  /\ out = [p \in Procs |-> <<>>]
  /\ calls = [p \in Procs |-> {}]
  /\ server_checked = [p \in Procs |-> FALSE]
  /\ characters = [p \in Procs |-> <<>>]
  /\ rosterFile = << <<>> >>
  /\ attempt = [p \in Procs |-> 0]
  /\ srv = [p \in Procs |-> NoSrv]
  /\ tree = [p \in Procs |-> <<>>]
  /\ wpos = [p \in Procs |-> 0]
  /\ cacheDir = FALSE
  /\ files = NoFiles
  /\ pre = [p \in Procs |->
              [cacheDir |-> cacheDir, files |-> files, rosterFile |-> rosterFile]]

NextServer ==
  \/ Resolving(1, ServerEnv)
  \/ FetchingTree(1, ServerEnv)
  \/ Normalizing(1)
  \/ EnrichingIcons(1, ServerEnv)

SpecServer == InitServer /\ [][NextServer]_vars

\* The graphs the enricher is checked on: more spell ids than the pool has
\* workers; ids shared between class, spec and hero nodes, with a spell id 0;
\* no spell id at all.
ManySpells == 14

IconRawTrees ==
  { RawTree(<<Node(1, [i \in 1..ManySpells |-> i])>>, <<>>, <<>>),
    RawTree(<<Node(1, <<5, 0>>)>>, <<Node(2, <<5, 6>>)>>,
            <<Hero(6, "Open", <<>>, <<Node(3, <<6, 7>>)>>)>>),
    RawTree(<<Node(1, <<>>)>>, <<Node(2, <<0>>)>>, <<>>) }

\* lookups of the spells 5 and 6 may fail or be answered without icon asset
IconsEnv == [faults |-> {"icon", "noasset"}, flaky |-> {5, 6},
             rawTrees |-> IconRawTrees]

\* The enricher alone: engine.py 450-453, the normalizer has returned the
\* graph of mage/fire and _attach_spell_icons is entered.
InitIcons ==
  /\ cmd = [p \in Procs |-> IF p = 1 THEN Fetch("eu", "mage", "fire") ELSE NoCmd]
  /\ pc = [p \in Procs |-> IF p = 1 THEN "EnrichingIcons" ELSE "Ready"]
  /\ stages = [p \in Procs |->
                 IF p = 1 THEN <<"Resolving", "FetchingTree", "Normalizing",
                                 "EnrichingIcons">>
                 ELSE <<>>]
  /\ out = [p \in Procs |-> <<>>]
  /\ calls = [p \in Procs |-> IF p = 1 THEN {"token", "spec", "tree", "sibling"}
                              ELSE {}]
  /\ server_checked = [p \in Procs |-> FALSE]
  /\ characters = [p \in Procs |-> <<>>]
  /\ rosterFile = << <<>> >>
  /\ attempt = [p \in Procs |-> 0]
  /\ \E raw \in IconsEnv.rawTrees :
       LET spec_id == SpecIdOf("mage", "fire")
           parsed  == _parse_talent_tree(raw, spec_id)
       IN  srv = [p \in Procs |->
                    IF p = 1
                      THEN [NoSrv EXCEPT
                              !.spec_id = spec_id, !.tree_id = 7, !.raw = raw,
                              !.all_node_ids = _collect_node_ids(raw),
                              !.parsed = <<[class_nodes  |-> parsed.class_nodes,
                                            spec_nodes   |-> parsed.spec_nodes,
                                            hero_trees   |-> parsed.hero_trees,
                                            all_node_ids |->
                                              SortedInts(_collect_node_ids(raw))]>>]
                      ELSE NoSrv]
  /\ tree = [p \in Procs |-> <<>>]
  /\ wpos = [p \in Procs |-> 0]
  /\ cacheDir = FALSE
  /\ files = NoFiles
  /\ pre = [p \in Procs |->
              [cacheDir |-> cacheDir, files |-> files, rosterFile |-> rosterFile]]

NextIcons ==
  \/ SubmitIcons(1)
  \/ StartLookup(1)
  \/ FinishLookup(1, IconsEnv)
  \/ AttachIcons(1)

SpecIcons == InitIcons /\ [][NextIcons]_vars

(***************************************************************************)
(* The /auto-add endpoint.  srv[p].permit says that the handler of p's     *)
(* request holds _auto_add_semaphore; srv[p].waited that the request       *)
(* arrived while another request's scan was running.                       *)
(***************************************************************************)
\* AUTO_ADD:region:name
AutoAdd(region, name) == Cmd("AUTO_ADD", 3, region, name, "")

AutoAddEnv == [cmds |-> {AutoAdd("eu", n) : n \in Names \cup {""}},
               faults |-> {"token", "realms"}]

\* engine.py 458 and 503: _auto_add_semaphore.locked()
Locked == \E q \in Procs : srv[q].permit

\* engine.py 498-516: auto_add is a coroutine whose scan awaits nothing, so the
\* event loop runs no other handler while a scan is running
LoopIdle == \A q \in Procs : pc[q] # "Scanning"

\* engine.py 773 and 546: the engine posts /auto-add; the request waits until
\* the event loop runs its handler
AutoAddPost(p) ==
  /\ pc[p] = "AutoAddPost"
  /\ pc' = [pc EXCEPT ![p] = "AutoAddQueued"]
  /\ calls' = [calls EXCEPT ![p] = @ \cup {"server"}]
  /\ srv' = [srv EXCEPT ![p] = [@ EXCEPT !.waited = ~LoopIdle]]
  /\ UNCHANGED <<cmd, out, stages, server_checked, characters, attempt, tree, wpos,
                 pre, diskVars>>

\* engine.py 499-505: the handler starts: the name is checked, then the
\* semaphore; it is acquired without suspension when it is free
AutoAddEnter(p) ==
  /\ pc[p] = "AutoAddQueued"
  /\ LoopIdle
  /\ IF cmd[p].a = ""
       THEN /\ srv' = [srv EXCEPT ![p] =
                        [@ EXCEPT !.status = 400, !.detail = "Missing 'name'"]]
            /\ pc' = [pc EXCEPT ![p] = "AutoAddReplied"]
       ELSE IF Locked
         THEN /\ srv' = [srv EXCEPT ![p] = [@ EXCEPT !.status = 429, !.detail =
                "Another auto-add scan is already running. Try again later."]]
              /\ pc' = [pc EXCEPT ![p] = "AutoAddReplied"]
         ELSE /\ srv' = [srv EXCEPT ![p] = [@ EXCEPT !.permit = TRUE]]
              /\ pc' = [pc EXCEPT ![p] = "Scanning"]
  /\ UNCHANGED <<cmd, out, stages, calls, server_checked, characters, attempt,
                 tree, wpos, pre, diskVars>>

\* engine.py 505-516: the scan; leaving the async with block, by return or by
\* exception, releases the semaphore
AutoAddScan(p, env) ==
  /\ pc[p] = "Scanning"
  /\ \E outcome \in (env.faults \cap {"token", "realms"}) \cup {"none"} \cup Realms :
       LET answer ==
             CASE outcome = "token"  -> <<502, "Failed to get Blizzard API token">>
               [] outcome = "realms" -> <<502, "Could not fetch realm list">>
               [] outcome = "none"   ->
                    <<404, "Character '" \o cmd[p].a \o "' not found in any "
                             \o cmd[p].region \o " realm">>
               [] OTHER              -> <<200, outcome>>
       IN  srv' = [srv EXCEPT ![p] = [@ EXCEPT !.status = answer[1],
                                               !.detail = answer[2],
                                               !.permit = FALSE]]
  /\ calls' = [calls EXCEPT ![p] = @ \cup {"token"}]
  /\ pc' = [pc EXCEPT ![p] = "AutoAddReplied"]
  /\ UNCHANGED <<cmd, out, stages, server_checked, characters, attempt, tree, wpos,
                 pre, diskVars>>

\* engine.py 769-773: the engine has read an AUTO_ADD command and is about to
\* post it again once the answer is in
AutoAddAgain(p, env) ==
  /\ pc[p] = "AutoAddReplied"
  /\ \E c \in env.cmds : cmd' = [cmd EXCEPT ![p] = c]
  /\ srv' = [srv EXCEPT ![p] = NoSrv]
  /\ calls' = [calls EXCEPT ![p] = {}]
  /\ pc' = [pc EXCEPT ![p] = "AutoAddPost"]
  /\ UNCHANGED <<out, stages, server_checked, characters, attempt, tree, wpos,
                 pre, diskVars>>

\* Two engines that each post AUTO_ADD requests to the one server.
InitAutoAdd ==
  /\ cmd \in [Procs -> AutoAddEnv.cmds]
  /\ pc = [p \in Procs |-> "AutoAddPost"]
  /\ stages = [p \in Procs |-> <<>>]
  /\ out = [p \in Procs |-> <<>>]
  /\ calls = [p \in Procs |-> {}]
  /\ server_checked = [p \in Procs |-> TRUE]
  /\ characters = [p \in Procs |-> <<>>]
  /\ rosterFile = << <<>> >>
  /\ attempt = [p \in Procs |-> 0]
  /\ srv = [p \in Procs |-> NoSrv]
  /\ tree = [p \in Procs |-> <<>>]
  /\ wpos = [p \in Procs |-> 0]
  /\ cacheDir = FALSE
  /\ files = NoFiles
  /\ pre = [p \in Procs |->
              [cacheDir |-> cacheDir, files |-> files, rosterFile |-> rosterFile]]

NextAutoAdd ==
  \E p \in Procs :
    \/ AutoAddPost(p)
    \/ AutoAddEnter(p)
    \/ AutoAddScan(p, AutoAddEnv)
    \/ AutoAddAgain(p, AutoAddEnv)

SpecAutoAdd == InitAutoAdd /\ [][NextAutoAdd]_vars

(***************************************************************************)
(* The engine's server call, attempt by attempt.  srv[p].answers are the   *)
(* statuses the attempts of the call were answered with, 0 for an attempt  *)
(* that raised requests.RequestException.                                 *)
(***************************************************************************)
\* what one attempt can be answered with: a status and a body
Answer(status, body) == [status |-> status, body |-> body]

CallEnv ==
  [cmds    |-> {Fetch(r, "mage", sp) : r \in {"eu", "us"}, sp \in {"fire", "frost"}}
                 \cup {AutoAdd(r, n) : r \in {"eu", "us"}, n \in Names},
   answers |-> {Answer(200, JsonDump(SeedTree)),
                Answer(200, JsonDump([SeedTree EXCEPT !.all_node_ids = <<>>])),
                Answer(200, <<"{", "class_nodes", "[">>),
                Answer(403, <<>>), Answer(404, <<>>), Answer(429, <<>>),
                Answer(500, <<>>), Answer(0, <<>>)}]

\* a second attempt is made after every 403
Retry_every403(status, attempt_no) == status = 403

\* engine.py 533-536 and 550-553: r.status_code == 403 and attempt == 0
Retry(status, attempt_no) == status = 403 /\ attempt_no = 0

\* engine.py 531-532 and 538-541: what the call returns for the answer that
\* ends it, <<>> for None; a body that does not decode makes r.json() raise
\* requests.JSONDecodeError, a RequestException
Returned(answer) ==
  IF answer.status = 200 /\ JsonLoad(answer.body).ok
    THEN <<JsonLoad(answer.body).val>> ELSE <<>>

\* engine.py 528-541 and 545-558: one pass of the loop of _server_get or of
\* _server_post
ServerCall(p, env) ==
  /\ pc[p] = "ServerCall"
  /\ attempt[p] < 2
  /\ calls' = [calls EXCEPT ![p] = @ \cup {"server"}]
  /\ \E answer \in env.answers :
       /\ srv' = [srv EXCEPT ![p] =
                    [@ EXCEPT !.answers = Append(@, answer.status),
                              !.status = answer.status, !.body = answer.body]]
       /\ IF Retry(answer.status, attempt[p])
            THEN /\ attempt' = [attempt EXCEPT ![p] = @ + 1]
                 /\ UNCHANGED <<pc, tree>>
            ELSE /\ tree' = [tree EXCEPT ![p] = Returned(answer)]
                 /\ pc' = [pc EXCEPT ![p] = "Returned"]
                 /\ UNCHANGED attempt
  /\ UNCHANGED <<cmd, out, stages, server_checked, characters, wpos, pre, diskVars>>

\* engine.py 722-725, 773 and 868: the next command that calls the server
NextCall(p, env) ==
  /\ pc[p] = "Returned"
  /\ \E c \in env.cmds : cmd' = [cmd EXCEPT ![p] = c]
  /\ srv' = [srv EXCEPT ![p] = NoSrv]
  /\ tree' = [tree EXCEPT ![p] = <<>>]
  /\ attempt' = [attempt EXCEPT ![p] = 0]
  /\ calls' = [calls EXCEPT ![p] = {}]
  /\ pc' = [pc EXCEPT ![p] = "ServerCall"]
  /\ UNCHANGED <<out, stages, server_checked, characters, wpos, pre, diskVars>>

InitCalls ==
  /\ \E c \in CallEnv.cmds :
       cmd = [p \in Procs |-> IF p = 1 THEN c ELSE NoCmd]
  /\ pc = [p \in Procs |-> IF p = 1 THEN "ServerCall" ELSE "Ready"]
  /\ stages = [p \in Procs |-> <<>>]
  /\ out = [p \in Procs |-> <<>>]
  /\ calls = [p \in Procs |-> {}]
  /\ server_checked = [p \in Procs |-> TRUE]
  /\ characters = [p \in Procs |-> <<>>]
  /\ rosterFile = << <<>> >>
  /\ attempt = [p \in Procs |-> 0]
  /\ srv = [p \in Procs |-> NoSrv]
  /\ tree = [p \in Procs |-> <<>>]
  /\ wpos = [p \in Procs |-> 0]
  /\ cacheDir = FALSE
  /\ files = NoFiles
  /\ pre = [p \in Procs |->
              [cacheDir |-> cacheDir, files |-> files, rosterFile |-> rosterFile]]

NextCalls ==
  \/ ServerCall(1, CallEnv)
  \/ NextCall(1, CallEnv)

SpecCalls == InitCalls /\ [][NextCalls]_vars

(***************************************************************************)
(* Properties of the talent tree cache and of FETCH_TALENT_TREE.           *)
(***************************************************************************)
\* p is serving a well-formed FETCH_TALENT_TREE
IsFetch(p) == cmd[p].name = "FETCH_TALENT_TREE" /\ cmd[p].nparts = 4

ReqKey(p) == Key(cmd[p].a, cmd[p].b)

\* the responses to the request among what p printed
Responses(p) ==
  SelectSeq(out[p], LAMBDA m : m.status \in {"talent_tree", "talent_tree_error"})

Last(seq) == seq[Len(seq)]

\* f, a file or <<>>, holds text that parses to an object with nonempty
\* class_nodes and nonempty spec_nodes
ValidEntry(f) ==
  /\ f # <<>>
  /\ JsonLoad(f[1]).ok
  /\ JsonLoad(f[1]).isDict
  /\ JsonLoad(f[1]).val.class_nodes # <<>>
  /\ JsonLoad(f[1]).val.spec_nodes # <<>>

\* the cache check of p's request is over
Checked(p) == IsFetch(p) /\ pc[p] \notin {"Health", "CacheCheck"}

\* the request got as far as storing what the server returned
TriedStore(p) == \E i \in DOMAIN stages[p] : stages[p][i] = "Caching"

\* the request stored what the server returned and ended
Stored(p) == TriedStore(p) /\ pc[p] = "Done" /\ Last(stages[p]) = "Done"

\* the endpoint raised in the resolver, the tree fetcher or the normalizer
StageFailed(p) == srv[p].status \in {400, 500}

\* C1: a request that finds a valid entry under its (class_slug, spec_slug)
\* goes from CacheCheck straight to Done: its one response is the cached
\* graph, it calls neither the server nor upstream, and the disk is as it was;
\* this for every region the request names.
C1_CacheHit ==
  \A p \in Procs :
    (Checked(p) /\ ValidEntry(pre[p].files[ReqKey(p)])) =>
      /\ pc[p] = "Done"
      /\ stages[p] = <<"CacheCheck", "Done">>
      /\ Responses(p) =
           <<Msg("talent_tree", cmd[p].a, cmd[p].b,
                 <<JsonLoad(pre[p].files[ReqKey(p)][1]).val>>, "")>>
      /\ calls[p] \subseteq {"health"}
      /\ Disk = pre[p]

\* a request naming region us was served from the cache
C1_Witness ==
  \E p \in Procs :
    /\ Checked(p) /\ cmd[p].region = "us"
    /\ ValidEntry(pre[p].files[ReqKey(p)])
    /\ pc[p] = "Done" /\ Len(Responses(p)) = 1

\* C2: Store is atomic for readers: a process about to load the entry of its
\* key finds no file or a whole entry, never a partly written one.
C2_AtomicStore ==
  \A p \in Procs :
    pc[p] = "CacheCheck" =>
      \/ files[ReqKey(p)] = <<>>
      \/ JsonLoad(files[ReqKey(p)][1]).ok

\* C3: with no entry, an entry that does not parse, or one without nonempty
\* class_nodes and spec_nodes, the cache check is a miss and not an error: the
\* request goes on to ask the server, no response precedes that call, and the
\* command loop goes on.
C3_LoadMiss ==
  \A p \in Procs :
    (Checked(p) /\ ~ValidEntry(pre[p].files[ReqKey(p)])) =>
      /\ stages[p] # <<>> /\ stages[p][1] = "CacheCheck"
      /\ pc[p] = "ServerGet" \/ "server" \in calls[p]
      /\ Responses(p) # <<>> => "server" \in calls[p]
      /\ pc[p] # "Exited"

\* an entry that does not parse was read and the request is about to ask the
\* server
C3_Witness ==
  \E p \in Procs :
    /\ Checked(p) /\ pc[p] = "ServerGet"
    /\ pre[p].files[ReqKey(p)] # <<>>
    /\ ~JsonLoad(pre[p].files[ReqKey(p)][1]).ok

\* C4: cache round trip: once a request has stored a graph under its key, a
\* Load of the key is a hit that returns an equal graph.
C4_RoundTrip ==
  \A p \in Procs :
    (IsFetch(p) /\ Stored(p)) => Load(files, ReqKey(p)) = tree[p]

\* C5: a request that got a usable graph from the server and went on to store
\* it ends in Done with the graph as its response, whether or not the store
\* worked.
C5_CacheFailure ==
  \A p \in Procs :
    (IsFetch(p) /\ pc[p] = "Done" /\ TriedStore(p)) =>
      /\ Last(stages[p]) = "Done"
      /\ Last(out[p]) = Msg("talent_tree", cmd[p].a, cmd[p].b, tree[p], "")

\* C6: a normalized graph is refused for emptiness exactly when class_nodes
\* and spec_nodes are both empty: the endpoint answers 200 exactly when one of
\* them is nonempty, and the engine reports "no data" for an answer it
\* received exactly when both are empty.
C6_EmptyResult ==
  \A p \in Procs :
    (IsFetch(p) /\ pc[p] = "Done" /\ srv[p].parsed # <<>>) =>
      LET empty == /\ srv[p].parsed[1].class_nodes = <<>>
                   /\ srv[p].parsed[1].spec_nodes = <<>>
          nodata == Last(out[p]) = TreeError(p, NoData(cmd[p].a, cmd[p].b))
      IN  /\ srv[p].status = 200 <=> ~empty
          /\ tree[p] # <<>> => (nodata <=> empty)

\* C7: a well-formed request has no response while it is served and exactly
\* one when it ends: a talent_tree carrying a graph or a talent_tree_error
\* carrying none, each echoing class_slug and spec_slug; and when the endpoint
\* raised in the resolver, the tree fetcher or the normalizer the response is
\* the error, no graph reached the engine and the cache is as it was.
C7_OneResponse ==
  \A p \in Procs :
    IsFetch(p) =>
      /\ pc[p] # "Done" => Responses(p) = <<>>
      /\ pc[p] = "Done" =>
           /\ Len(Responses(p)) = 1
           /\ Last(out[p]) = Responses(p)[1]
           /\ Responses(p)[1].class_slug = cmd[p].a
           /\ Responses(p)[1].spec_slug = cmd[p].b
           /\ \/ /\ Responses(p)[1].status = "talent_tree"
                 /\ Responses(p)[1].tree # <<>>
                 /\ Responses(p)[1].message = ""
              \/ /\ Responses(p)[1].status = "talent_tree_error"
                 /\ Responses(p)[1].tree = <<>>
                 /\ Responses(p)[1].message # ""
           /\ StageFailed(p) =>
                /\ Responses(p)[1].status = "talent_tree_error"
                /\ tree[p] = <<>>
                /\ files = pre[p].files /\ cacheDir = pre[p].cacheDir

\* the normalizer raised and the request ended with its error
C7_Witness ==
  \E p \in Procs :
    /\ IsFetch(p) /\ pc[p] = "Done"
    /\ srv[p].status = 500 /\ Last(stages[p]) = "Failed"
    /\ Last(out[p]).status = "talent_tree_error"

\* C8: when the endpoint raised in the resolver, the tree fetcher or the
\* normalizer, the message of the error the engine prints is the detail the
\* failing stage gave.
C8_Diagnostic ==
  \A p \in Procs :
    (IsFetch(p) /\ pc[p] = "Done" /\ StageFailed(p)) =>
      /\ Last(out[p]).status = "talent_tree_error"
      /\ Last(out[p]).message = srv[p].detail

\* a key goes from miss to hit in this step
Fills(k) == files'[k] # files[k] /\ Load(files, k) = <<>> /\ Load(files', k) # <<>>

C10_ClearFrame ==
  [][\A p \in Procs :
       (pc[p] = "Clear" /\ pc'[p] = "Done") =>
         rosterFile' = rosterFile /\ characters' = characters]_vars

\* a cache with files in it was cleared while the roster held a character
C10_Witness ==
  \E p \in Procs :
    /\ cmd[p] = ClearCmd /\ pc[p] = "Done"
    /\ pre[p].cacheDir /\ pre[p].files # NoFiles /\ files = NoFiles
    /\ characters[p] # <<>> /\ rosterFile = <<characters[p]>>

\* C11: a valid entry is immutable: no step but CLEAR_TALENT_CACHE changes a
\* file that holds a valid entry, and a request served while its key holds one
\* answers with exactly that entry, which is still in the file afterwards.
C11_Immutable ==
  /\ [][\A k \in Keys :
          (files'[k] # files[k] /\ ValidEntry(files[k])) =>
            \E p \in Procs : pc[p] = "Clear"]_vars
  /\ [](\A p \in Procs :
          (Checked(p) /\ ValidEntry(pre[p].files[ReqKey(p)])) =>
            /\ files[ReqKey(p)] = pre[p].files[ReqKey(p)]
            /\ Responses(p) # <<>>
            /\ Responses(p)[1].tree = <<JsonLoad(files[ReqKey(p)][1]).val>>)

\* a request was served from an entry that an earlier request had stored
C11_Witness ==
  \E p \in Procs :
    /\ Checked(p) /\ pc[p] = "Done"
    /\ ValidEntry(pre[p].files[ReqKey(p)])
    /\ pre[p].files[ReqKey(p)] # <<JsonDump(SeedTree)>>
    /\ files = pre[p].files

(***************************************************************************)
(* Properties of the server's stages, under SpecServer.                    *)
(***************************************************************************)
\* the pair of p's request is in the static table
InTable(p) ==
  cmd[p].a \in DOMAIN SPEC_IDS /\ cmd[p].b \in DOMAIN SPEC_IDS[cmd[p].a]

\* the request failed as an unknown spec
UnknownSpec(p) ==
  /\ srv[p].status = 400
  /\ srv[p].detail = "Unknown spec: " \o cmd[p].a \o "/" \o cmd[p].b

\* the resolver of p's request has looked the pair up
Resolved(p) ==
  /\ IsFetch(p) /\ pc[p] # "Resolving"
  /\ \E i \in DOMAIN stages[p] : stages[p][i] = "Resolving"

\* C12: for every pair of the table the resolver has that pair's id, which is
\* not zero, and the request is not refused as unknown; for every other pair
\* (a class not in the table, or a spec its class does not have) the request
\* ends at once as "Unknown spec" with no upstream call made.
C12_UnknownSpec ==
  \A p \in Procs :
    Resolved(p) =>
      /\ InTable(p) =>
           /\ srv[p].spec_id = SPEC_IDS[cmd[p].a][cmd[p].b]
           /\ srv[p].spec_id # 0
           /\ ~UnknownSpec(p)
      /\ ~InTable(p) =>
           /\ UnknownSpec(p)
           /\ srv[p].spec_id = 0
           /\ calls[p] \cap {"token", "spec", "tree", "sibling", "icon"} = {}
           /\ srv[p].parsed = <<>>

\* a spec that a class of the table does not have was refused
C12_Witness ==
  \E p \in Procs :
    /\ Resolved(p) /\ cmd[p].a \in DOMAIN SPEC_IDS /\ ~InTable(p)
    /\ UnknownSpec(p) /\ pc[p] = "ServerReply"

\* the number n of a reference string containing /talent-tree/n/, 0 if the
\* object has no such string
HrefNumber(ref) ==
  LET segs == ref.key.href
      at == {i \in 1..(Len(segs) - 1) : segs[i] = "talent-tree" /\ IsNum(segs[i + 1])}
  IN  IF ref.key.kind \in {"dict", "str"} /\ at # {}
        THEN NumOf(segs[(CHOOSE i \in at : TRUE) + 1]) ELSE 0

\* the reference the specialization answer of p's request carries
RefOf(p) ==
  IF srv[p].spec_data[1].spec_talent_tree.kind # "none"
       /\ srv[p].spec_data[1].spec_talent_tree # IntRef(0)
    THEN srv[p].spec_data[1].spec_talent_tree
  ELSE IF srv[p].spec_data[1].talent_trees # <<>>
    THEN srv[p].spec_data[1].talent_trees[1]
  ELSE NoRef

\* the resolver of p's request passed the tree id t on to the tree fetcher
ResolvedTo(p, t) ==
  /\ srv[p].tree_id = t
  /\ \E i \in DOMAIN stages[p] : stages[p][i] = "FetchingTree"

\* C13: the resolver takes the tree id n from each encoding of the reference:
\* the integer n itself, an object whose key holds a reference string with
\* /talent-tree/n/, and an object with id n; the reference string is tried
\* before the id field, so for an object with both it is the string's number.
C13_TreeRef ==
  \A p \in Procs :
    (Resolved(p) /\ srv[p].spec_data # <<>>) =>
      /\ (RefOf(p).kind = "int" /\ RefOf(p).int # 0) =>
           ResolvedTo(p, RefOf(p).int)
      /\ (RefOf(p).kind = "dict" /\ HrefNumber(RefOf(p)) # 0) =>
           ResolvedTo(p, HrefNumber(RefOf(p)))
      /\ (RefOf(p).kind = "dict" /\ HrefNumber(RefOf(p)) = 0 /\ RefOf(p).id # 0) =>
           ResolvedTo(p, RefOf(p).id)

\* an object with a reference string for tree 7 and the id 8 gave tree 7
C13_Witness ==
  \E p \in Procs :
    /\ Resolved(p) /\ srv[p].spec_data # <<>>
    /\ RefOf(p).kind = "dict" /\ HrefNumber(RefOf(p)) = 7 /\ RefOf(p).id = 8
    /\ ResolvedTo(p, 7)

\* no encoding of the reference of p's request yields an id
NoTreeId(p) ==
  /\ ~(RefOf(p).kind = "int" /\ RefOf(p).int # 0)
  /\ ~(RefOf(p).kind = "dict" /\ (HrefNumber(RefOf(p)) # 0 \/ RefOf(p).id # 0))

\* the texts a resolver message may put before the keys
MismatchTexts ==
  {"No talent tree reference found. Keys: ", "Could not extract tree ID from: ",
   "Could not extract tree ID. Keys: "}

\* C14: whenever no encoding of the reference yields an id, the request fails
\* as a schema mismatch (400) whose message ends with the list of the keys
\* of the specialization answer, both when the answer has no reference and
\* when it has one from which no id can be taken.
C14_SchemaMismatch ==
  \A p \in Procs :
    (Resolved(p) /\ srv[p].spec_data # <<>> /\ NoTreeId(p)) =>
      /\ srv[p].status = 400
      /\ \E text \in MismatchTexts :
           srv[p].detail = text \o ListText(KeysOf(srv[p].spec_data[1]))

\* the message of the upstream-unavailable failure of a call
Unavailable(p) ==
  IF srv[p].failed = "spec"
    THEN "Blizzard API returned no data for spec " \o ToString(srv[p].spec_id)
    ELSE "Blizzard API returned no data for tree " \o ToString(srv[p].tree_id)

\* C15: if the specialization call or the tree call does not succeed (a
\* status other than 200, a timeout, an exception), the request fails as
\* upstream unavailable, with that failure's message, and no later stage runs:
\* no sibling call, no normalization, no icon lookup.
C15_Upstream ==
  \A p \in Procs :
    srv[p].failed \in {"spec", "tree"} =>
      /\ srv[p].status = 400
      /\ srv[p].detail = Unavailable(p)
      /\ calls[p] \cap {"sibling", "icon"} = {}
      /\ srv[p].parsed = <<>>
      /\ \A i \in DOMAIN stages[p] :
           stages[p][i] \notin {"Normalizing", "EnrichingIcons", "Caching"}

\* the tree fetcher has returned the primary payload of the request
TreeFetched(p) ==
  /\ IsFetch(p)
  /\ \E i \in DOMAIN stages[p] : stages[p][i] = "Normalizing"

\* the sibling answers that arrived
Arrived(p) == {q \in srv[p].siblings : q[2] # <<>>}

Normalized(p) == IsFetch(p) /\ srv[p].parsed # <<>>

\* the hero tree's eligible-specialization list names the spec id
Declares(ht, spec_id) ==
  \E i \in DOMAIN ht.specs : ht.specs[i].hasId /\ ht.specs[i].id = spec_id

\* the ids of the hero trees of the graph
HeroIds(p) ==
  {srv[p].parsed[1].hero_trees[i].id : i \in DOMAIN srv[p].parsed[1].hero_trees}

\* C17: a hero tree of the raw payload is in heroTrees if and only if its
\* eligible-specialization list is absent, empty, or contains the active spec
\* id; a nonempty list without the active spec id excludes the tree, whatever
\* the shape of the list's elements.
C17_HeroFilter ==
  \A p \in Procs :
    Normalized(p) =>
      \A i \in DOMAIN srv[p].raw.hero_talent_trees :
        LET ht == srv[p].raw.hero_talent_trees[i]
        IN  ht.id \in HeroIds(p) <=>
              (ht.specs = <<>> \/ Declares(ht, srv[p].spec_id))

\* the ids of a node list are strictly ascending: ascending and unique
Ascending(nodes) ==
  \A i \in DOMAIN nodes : \A j \in DOMAIN nodes : i < j => nodes[i].id < nodes[j].id

\* C18: in every graph the normalizer produces, the node ids of classNodes and
\* the node ids of specNodes are each unique and in ascending order, also for
\* payloads with repeated ids or with nodes that have no id.
C18_UniqueAscending ==
  \A p \in Procs :
    Normalized(p) =>
      /\ Ascending(srv[p].parsed[1].class_nodes)
      /\ Ascending(srv[p].parsed[1].spec_nodes)

\* the normalizer has been called on the payload of the request and is over
NormalizerRan(p) == TreeFetched(p) /\ pc[p] # "Normalizing"

\* C19: the normalizer never raises on type drift. Whatever a node carries
\* where a list or object is expected (an integer, a string, a list, nothing),
\* normalization completes with a graph, and the request is not answered 500.
C19_NoRaise ==
  \A p \in Procs :
    NormalizerRan(p) => srv[p].parsed # <<>> /\ srv[p].status # 500

\* the objects among the elements of a raw list, in the given order
Objects(items) == SelectSeq(items, LAMBDA x : x.isDict)

\* the alternatives the first rank structure of a raw node carries
AlternativesOf(node) ==
  IF node.ranks.items # <<>> /\ node.ranks.items[1].isDict
    THEN Objects(node.ranks.items[1].choices.items)
    ELSE <<>>

\* the spell ids of a sequence of raw elements or of entries, in order
SpellsOf(items) == [i \in DOMAIN items |-> items[i].spell_id]

\* the talent node is what the raw node collapses to
CollapseOf(node, talent) ==
  /\ talent.id = (IF node.hasId THEN node.id ELSE 0)
  /\ IF Len(AlternativesOf(node)) >= 1
       THEN /\ talent.type = "CHOICE"
            /\ talent.max_ranks = 1
            /\ SpellsOf(talent.entries) = SpellsOf(AlternativesOf(node))
       ELSE SpellsOf(talent.entries) = SpellsOf(Objects(node.ranks.items))

\* every raw node object of the list has its talent node, and no talent node
\* is there without one
Collapsed(raw_nodes, talents) ==
  /\ Len(talents) = Len(Objects(raw_nodes))
  /\ \A i \in DOMAIN raw_nodes :
       raw_nodes[i].isDict =>
         \E j \in DOMAIN talents : CollapseOf(raw_nodes[i], talents[j])

NodesOf(parsed) ==
  {parsed.class_nodes[i] : i \in DOMAIN parsed.class_nodes}
    \cup {parsed.spec_nodes[i] : i \in DOMAIN parsed.spec_nodes}
    \cup UNION {{parsed.hero_trees[h].nodes[i] : i \in DOMAIN parsed.hero_trees[h].nodes} :
                  h \in DOMAIN parsed.hero_trees}

\* C21: every node the normalizer produces has max_ranks >= 1, and every node
\* of kind CHOICE has max_ranks = 1, also a node that upstream already types
\* CHOICE while its ranks carry no alternatives.
C21_MaxRanks ==
  \A p \in Procs :
    Normalized(p) =>
      \A n \in NodesOf(srv[p].parsed[1]) :
        /\ n.max_ranks >= 1
        /\ n.type = "CHOICE" => n.max_ranks = 1

\* the ids a raw locked_by names: its bare integers and the ids of its
\* objects that carry one
RawDepIds(node) ==
  {node.locked_by.items[i].id :
     i \in {j \in DOMAIN node.locked_by.items : node.locked_by.items[j].hasId}}

\* every raw node object of the list has a talent node locked by exactly the
\* ids its locked_by names
LockedAsRaw(raw_nodes, talents) ==
  \A i \in DOMAIN raw_nodes :
    raw_nodes[i].isDict =>
      \E j \in DOMAIN talents :
        /\ talents[j].id = (IF raw_nodes[i].hasId THEN raw_nodes[i].id ELSE 0)
        /\ {talents[j].locked_by[k] : k \in DOMAIN talents[j].locked_by}
             = RawDepIds(raw_nodes[i])

\* C22: prerequisite normalization. A locked_by of bare integers and one of
\* objects carrying an id give the same set of those ids, an omitted locked_by
\* gives the empty set, and lockedBy holds no id the raw list did not hold.
C22_LockedBy ==
  \A p \in Procs :
    Normalized(p) =>
      /\ LockedAsRaw(srv[p].raw.class_talent_nodes, srv[p].parsed[1].class_nodes)
      /\ LockedAsRaw(srv[p].raw.spec_talent_nodes, srv[p].parsed[1].spec_nodes)

(***************************************************************************)
(* Properties of the icon enricher.                                        *)
(***************************************************************************)
\* _attach_spell_icons has returned for the request
Enriched(p) ==
  /\ IsFetch(p)
  /\ pc[p] = "ServerReply"
  /\ \E i \in DOMAIN stages[p] : stages[p][i] = "EnrichingIcons"

\* the entries of all nodes of the graph
EntriesOf(parsed) ==
  UNION {{n.entries[j] : j \in DOMAIN n.entries} : n \in NodesOf(parsed)}

\* C23: enrichment resilience. Whatever set F of spell ids has a failing
\* lookup, enrichment completes: it is never stuck, every entry whose spell id
\* is outside F and has an icon asset gets its icon url, every entry whose
\* spell id is in F stays without one, and the request is answered 200.
C23_Resilience ==
  \A p \in Procs :
    LET pool == srv[p].pool
    IN  /\ pc[p] = "IconPool" =>
             \/ pool.running # {}
             \/ pool.started < Len(pool.futures)
             \/ pool.done = Range(pool.futures)
        /\ Enriched(p) =>
             /\ srv[p].status = 200
             /\ srv[p].parsed # <<>>
             /\ \A e \in EntriesOf(srv[p].parsed[1]) :
                  /\ e.spell_id \in pool.failed => e.icon_url = ""
                  /\ e.spell_id # 0 /\ e.spell_id \notin pool.failed \cup pool.noasset
                       => e.icon_url = IconUrl(e.spell_id)

\* a graph returned after one lookup failed, one was answered without icon
\* asset and one yielded a url
C23_Witness ==
  \E p \in Procs :
    /\ Enriched(p)
    /\ srv[p].pool.failed # {}
    /\ srv[p].pool.noasset # {}
    /\ \E e \in EntriesOf(srv[p].parsed[1]) : e.icon_url # ""

\* C24: during enrichment never more than max_workers (12) lookups are in
\* flight, however many spell ids the graph has, and a failing lookup neither
\* cancels nor prevents another one: when the enricher returns, every
\* submitted lookup has been sent and has completed.
C24_PoolCeiling ==
  \A p \in Procs :
    LET pool == srv[p].pool
    IN  /\ Cardinality(pool.running) <= max_workers
        /\ pool.running \cap pool.done = {}
        /\ Enriched(p) =>
             /\ pool.running = {}
             /\ pool.done = Range(pool.futures)
             /\ pool.started = Len(pool.futures)

\* the pool is full, with more lookups waiting, after a lookup has failed
C24_Witness ==
  \E p \in Procs :
    /\ pc[p] = "IconPool"
    /\ Cardinality(srv[p].pool.running) = max_workers
    /\ srv[p].pool.started < Len(srv[p].pool.futures)
    /\ srv[p].pool.failed # {}

\* the distinct nonzero spell ids of the entries of the graph
WantedIds(p) == {e.spell_id : e \in EntriesOf(srv[p].parsed[1])} \ {0}

\* the spell ids a lookup was sent for
LookedUp(p) == {sid \in DOMAIN srv[p].pool.lookups : srv[p].pool.lookups[sid] > 0}

\* C25: the enricher sends exactly one lookup for each distinct nonzero spell
\* id of the entries of class nodes, spec nodes and hero nodes and none for
\* spell id 0; an id shared by several entries is looked up once, a failed
\* lookup is not retried, and without any id no lookup is sent and the graph
\* is returned unchanged.
C25_OneLookup ==
  \A p \in Procs :
    /\ \A sid \in DOMAIN srv[p].pool.lookups : srv[p].pool.lookups[sid] <= 1
    /\ 0 \notin LookedUp(p)
    /\ Enriched(p) =>
         /\ LookedUp(p) = WantedIds(p)
         /\ WantedIds(p) = {} =>
              /\ "icon" \notin calls[p]
              /\ LET parsed == _parse_talent_tree(srv[p].raw, srv[p].spec_id)
                 IN  /\ srv[p].parsed[1].class_nodes = parsed.class_nodes
                     /\ srv[p].parsed[1].spec_nodes = parsed.spec_nodes
                     /\ srv[p].parsed[1].hero_trees = parsed.hero_trees

\* the enricher has returned for a graph in which one spell id occurs in a
\* class node and in a spec node, another entry has spell id 0, and a lookup
\* has failed
C25_Witness ==
  \E p \in Procs :
    /\ Enriched(p)
    /\ srv[p].pool.failed # {}
    /\ \E i \in DOMAIN srv[p].parsed[1].class_nodes :
       \E j \in DOMAIN srv[p].parsed[1].spec_nodes :
         LET c == srv[p].parsed[1].class_nodes[i].entries
             s == srv[p].parsed[1].spec_nodes[j].entries
         IN  /\ \E k \in DOMAIN c : c[k].spell_id = 0
             /\ \E k \in DOMAIN c : \E m \in DOMAIN s :
                  c[k].spell_id # 0 /\ c[k].spell_id = s[m].spell_id

\* C26: icon attachment follows the join. No entry has an icon url before
\* every submitted lookup has completed; once the enricher has returned, every
\* entry of class, spec and hero nodes whose spell id was resolved carries the
\* url resolved for that id, the same for all entries sharing it, whatever the
\* order in which the lookups were submitted and completed, and no other entry
\* carries a url.
C26_Join ==
  \A p \in Procs :
    srv[p].parsed # <<>> =>
      LET pool == srv[p].pool
      IN  /\ (\E e \in EntriesOf(srv[p].parsed[1]) : e.icon_url # "") =>
               /\ pool.running = {}
               /\ pool.done = Range(pool.futures)
               /\ pool.started = Len(pool.futures)
          /\ Enriched(p) =>
               \A e \in EntriesOf(srv[p].parsed[1]) :
                 e.icon_url = (IF e.spell_id \in pool.icon_map
                                 THEN IconUrl(e.spell_id) ELSE "")

\* the enricher has returned after lookups submitted in descending order, and
\* a spell id shared by a spec node and a hero node carries its url in both
C26_Witness ==
  \E p \in Procs :
    /\ Enriched(p)
    /\ Len(srv[p].pool.futures) > 1
    /\ srv[p].pool.futures[1] > srv[p].pool.futures[2]
    /\ \E i \in DOMAIN srv[p].parsed[1].spec_nodes :
       \E h \in DOMAIN srv[p].parsed[1].hero_trees :
       \E j \in DOMAIN srv[p].parsed[1].hero_trees[h].nodes :
         LET s == srv[p].parsed[1].spec_nodes[i].entries
             t == srv[p].parsed[1].hero_trees[h].nodes[j].entries
         IN  \E k \in DOMAIN s : \E m \in DOMAIN t :
               /\ s[k].spell_id = t[m].spell_id
               /\ s[k].icon_url = IconUrl(s[k].spell_id)
               /\ t[m].icon_url = s[k].icon_url

(***************************************************************************)
(* Properties of the request as a whole.                                   *)
(***************************************************************************)
\* the stages of a request that misses the cache, in their order
PipelineOrder ==
  <<"CacheCheck", "Resolving", "FetchingTree", "Normalizing", "EnrichingIcons",
    "Caching", "Done">>

IsPrefix(s, t) == Len(s) <= Len(t) /\ s = SubSeq(t, 1, Len(s))

\* the stages are an initial part of the order, ended by Failed if the request
\* failed
InOrder(s) ==
  \/ IsPrefix(s, PipelineOrder)
  \/ s # <<>> /\ Last(s) = "Failed" /\ IsPrefix(SubSeq(s, 1, Len(s) - 1), PipelineOrder)

\* the engine is storing the graph of p's request
Storing(p) == pc[p] \in {"Caching", "CacheOpen", "CacheWrite"}

\* C27: on a cache miss the stages of a request run strictly in the order
\* Resolving, FetchingTree, Normalizing, EnrichingIcons, Caching, Done, one at
\* a time; the cache entry is written only after enrichment has completed, and
\* the graph stored is the enriched one that is also returned to the caller.
C27_StageOrder ==
  \A p \in Procs :
    (Checked(p) /\ ~ValidEntry(pre[p].files[ReqKey(p)])) =>
      /\ InOrder(stages[p])
      /\ pc[p] \in {"Resolving", "FetchingTree", "Normalizing", "EnrichingIcons"}
           => Last(stages[p]) = pc[p]
      /\ Storing(p) =>
           /\ Last(stages[p]) = "Caching"
           /\ srv[p].status = 200
           /\ srv[p].body = JsonDump(srv[p].parsed[1])
           /\ tree[p] = srv[p].parsed
      /\ files[ReqKey(p)] # pre[p].files[ReqKey(p)] =>
           \E i \in DOMAIN stages[p] : stages[p][i] = "Caching"
      /\ Stored(p) =>
           /\ stages[p] = PipelineOrder
           /\ files[ReqKey(p)] = <<JsonDump(srv[p].parsed[1])>>
           /\ Last(out[p]) = Msg("talent_tree", cmd[p].a, cmd[p].b, srv[p].parsed, "")

\* a request that missed the cache has stored and returned a graph in which an
\* entry carries its icon url
C27_Witness ==
  \E p \in Procs :
    /\ Checked(p) /\ ~ValidEntry(pre[p].files[ReqKey(p)])
    /\ Stored(p)
    /\ \E e \in EntriesOf(srv[p].parsed[1]) : e.icon_url # ""

\* a talent node without any entry: no entry of it has a usable name
Degenerate(talent) == talent.entries = <<>>

\* C28: degenerate nodes, nodes none of whose entries has a usable name, are
\* dropped from classNodes and specNodes and kept in heroTrees: the graph has
\* no such node among its class and spec nodes, and every hero tree of the
\* graph has one node per raw node object of that hero tree.
C28_Degenerate ==
  \A p \in Procs :
    Normalized(p) =>
      LET parsed == srv[p].parsed[1]
      IN  /\ \A i \in DOMAIN parsed.class_nodes : ~Degenerate(parsed.class_nodes[i])
          /\ \A i \in DOMAIN parsed.spec_nodes : ~Degenerate(parsed.spec_nodes[i])
          /\ \A h \in DOMAIN parsed.hero_trees :
               \E i \in DOMAIN srv[p].raw.hero_talent_trees :
                 LET ht == srv[p].raw.hero_talent_trees[i]
                 IN  /\ ht.id = parsed.hero_trees[h].id
                     /\ Len(parsed.hero_trees[h].nodes) = Len(Objects(ht.nodes))

(***************************************************************************)
(* Properties of /auto-add.                                                *)
(***************************************************************************)
\* C29: auto-add scans are mutually exclusive: at most one scan is inside its
\* critical section at any time; a request that arrives while a scan is
\* running is rejected with 429 and not queued; and the permit is released on
\* every exit of the scan, so no later request is locked out for good.
C29_AutoAdd ==
  /\ Cardinality({p \in Procs : srv[p].permit}) <= 1
  /\ \A p \in Procs :
       /\ srv[p].waited /\ cmd[p].a # "" =>
            /\ pc[p] # "Scanning"
            /\ pc[p] = "AutoAddReplied" => srv[p].status = 429
       /\ pc[p] = "AutoAddReplied" => ~srv[p].permit

(***************************************************************************)
(* Properties of the engine's server call.                                 *)
(***************************************************************************)
\* C30: _server_get and _server_post end after at most two attempts; the
\* second attempt is made only when the first was answered 403; a 200 on
\* either attempt returns the decoded body; every other outcome, a status
\* other than 200 and a first 403, a 403 on the second attempt, an exception
\* of the request on any attempt, returns None without another attempt.
C30_TwoAttempts ==
  \A p \in Procs :
    LET answers == srv[p].answers
    IN  /\ Len(answers) <= 2
        /\ Len(answers) = 2 => answers[1] = 403
        /\ pc[p] = "ServerCall" => answers \in {<<>>, <<403>>} /\ tree[p] = <<>>
        /\ pc[p] = "Returned" =>
             /\ answers # <<>>
             /\ Len(answers) = 1 => answers[1] # 403
             /\ tree[p] = (IF Last(answers) = 200 /\ JsonLoad(srv[p].body).ok
                             THEN <<JsonLoad(srv[p].body).val>> ELSE <<>>)

\* a call that returned the decoded body of its second attempt
C30_Witness ==
  \E p \in Procs :
    /\ pc[p] = "Returned"
    /\ srv[p].answers = <<403, 200>>
    /\ tree[p] # <<>>

(***************************************************************************)
(* The roster commands, engine.py 755-803, served by one engine.            *)
(***************************************************************************)
\* engine.py 769-780: AUTO_ADD; the server names the realm it found the
\* character on (engine.py 513-516)
AutoAddCharacter(p, env) ==
  /\ pc[p] = "AutoAddCharacter"
  /\ calls' = [calls EXCEPT ![p] = @ \cup {"server"}]
  /\ \/ /\ "lookup" \in env.faults
        /\ out' = [out EXCEPT ![p] = Append(@, StatusMsg("not_found"))]
        /\ UNCHANGED <<characters, rosterFile>>
     \/ \E name \in {n \in AllNames : Lower(n) = Lower(cmd[p].a)},
           realm_name \in AllRealms :
          LET char == Character(name, realm_name)
          IN  /\ IF find_character(characters[p], char.name, char.realm) = 0
                   THEN /\ characters' = [characters EXCEPT ![p] = Append(@, char)]
                        /\ rosterFile' = save_data(characters'[p])
                   ELSE UNCHANGED <<characters, rosterFile>>
              /\ out' = [out EXCEPT ![p] = Append(@, StatusMsg("added"))]
  /\ pc' = [pc EXCEPT ![p] = "Done"]
  /\ UNCHANGED <<cmd, stages, server_checked, attempt, srv, tree, wpos, pre,
                 cacheDir, files>>

\* engine.py 792-803: TOGGLE_ACTIVITY
ToggleActivity(p) ==
  /\ pc[p] = "ToggleActivity"
  /\ LET i == find_character(characters[p], cmd[p].a, cmd[p].b)
     IN  IF i # 0
           THEN /\ characters' = [characters EXCEPT ![p][i] =
                                    toggle_activity(@, cmd[p].region)]
                /\ rosterFile' = save_data(characters'[p])
                /\ out' = [out EXCEPT ![p] = Append(@, StatusMsg("toggled"))]
           ELSE UNCHANGED <<characters, rosterFile, out>>
  /\ pc' = [pc EXCEPT ![p] = "Done"]
  /\ UNCHANGED <<cmd, stages, calls, server_checked, attempt, srv, tree, wpos, pre,
                 cacheDir, files>>

\* the roster commands a user may type, and a server that may find nothing
RosterEnv ==
  [cmds |-> {AddCmd("eu", r, n) : r \in AllRealms, n \in AllNames}
              \cup {AutoAdd("eu", n) : n \in AllNames}
              \cup {DeleteCmd(n, r) : n \in AllNames, r \in AllRealms}
              \cup {ToggleCmd(n, r, a) : n \in AllNames, r \in AllRealms,
                                         a \in {"Raid", "Delves"}},
   faults |-> {"lookup"}]

\* engine.py 704-720: the rosters the engine may load, none with two
\* characters of one name and realm
LoadedRosters ==
  {<<>>, <<Character("Thrall", "Draenor")>>,
   <<Character("thrall", "Silvermoon"),
     toggle_activity(Character("Jaina", "Draenor"), "Raid")>>}

InitRoster ==
  /\ pc = [p \in Procs |-> "Ready"]
  /\ cmd = [p \in Procs |-> NoCmd]
  /\ out = [p \in Procs |-> <<>>]
  /\ stages = [p \in Procs |-> <<>>]
  /\ calls = [p \in Procs |-> {}]
  /\ server_checked = [p \in Procs |-> FALSE]
  /\ \E r \in LoadedRosters :
       /\ characters = [p \in Procs |-> r]
       /\ rosterFile = save_data(r)
  /\ attempt = [p \in Procs |-> 0]
  /\ srv = [p \in Procs |-> NoSrv]
  /\ tree = [p \in Procs |-> <<>>]
  /\ wpos = [p \in Procs |-> 0]
  /\ cacheDir = FALSE
  /\ files = NoFiles
  /\ pre = [p \in Procs |->
              [cacheDir |-> cacheDir, files |-> files, rosterFile |-> rosterFile]]

NextRoster ==
  \/ ReadCommand(1, RosterEnv)
  \/ Return(1)
  \/ HealthCheck(1, RosterEnv)
  \/ AddCharacter(1, RosterEnv)
  \/ AutoAddCharacter(1, RosterEnv)
  \/ DeleteCharacter(1)
  \/ ToggleActivity(1)

SpecRoster == InitRoster /\ [][NextRoster]_vars

(***************************************************************************)
(* Properties of the roster.                                               *)
(***************************************************************************)
\* c is the character the roster commands call (name, realm)
Matches(c, name, realm) ==
  Lower(c.name) = Lower(name) /\ Lower(c.realm) = Lower(realm)

\* no two entries of the roster have one name and realm, letter case aside
NoDuplicates(chars) ==
  \A i, j \in DOMAIN chars :
    Matches(chars[i], chars[j].name, chars[j].realm) => i = j

\* who is on the roster, in order, whatever they have done this week
Members(chars) == [i \in DOMAIN chars |-> <<chars[i].name, chars[i].realm>>]

\* the step in which p serves the command it read
Serves(p, name) == cmd[p].name = name /\ pc[p] # "Done" /\ pc'[p] = "Done"

\* an add step leaves the roster as it was, or appends a character that was
\* not on it; ADD_CHARACTER of a (realm, name) on the roster changes nothing
AddStep(p) ==
  Serves(p, "ADD_CHARACTER") \/ Serves(p, "AUTO_ADD") =>
    /\ \/ characters'[p] = characters[p]
       \/ /\ Len(characters'[p]) = Len(characters[p]) + 1
          /\ SubSeq(characters'[p], 1, Len(characters[p])) = characters[p]
          /\ LET c == characters'[p][Len(characters'[p])]
             IN  \A i \in DOMAIN characters[p] :
                   ~Matches(characters[p][i], c.name, c.realm)
    /\ (/\ cmd[p].name = "ADD_CHARACTER"
        /\ \E i \in DOMAIN characters[p] :
             Matches(characters[p][i], cmd[p].b, cmd[p].a))
         => characters'[p] = characters[p]

\* a delete step removes at most one character, the one the command names,
\* and keeps the others in their order
DeleteStep(p) ==
  Serves(p, "DELETE_CHARACTER") =>
    /\ Len(characters'[p]) >= Len(characters[p]) - 1
    /\ LET kept(c) == ~Matches(c, cmd[p].a, cmd[p].b)
       IN  /\ SelectSeq(characters'[p], kept) = SelectSeq(characters[p], kept)
           /\ Len(SelectSeq(characters'[p], kept)) = Len(characters'[p])
                \/ characters'[p] = characters[p]

\* a toggle step changes nobody's name or realm
ToggleStep(p) ==
  Serves(p, "TOGGLE_ACTIVITY") => Members(characters'[p]) = Members(characters[p])

\* C31: a roster that starts without two characters of one case-insensitive
\* (name, realm) never has two, whatever ADD_CHARACTER, AUTO_ADD,
\* DELETE_CHARACTER and TOGGLE_ACTIVITY commands are served; an add of a
\* character on the roster leaves the roster as it was, and a delete removes
\* at most the one character it names.
C31_RosterUnique ==
  /\ []NoDuplicates(characters[1])
  /\ [][AddStep(1) /\ DeleteStep(1) /\ ToggleStep(1)]_vars

\* "thrall" was added to a roster of two or more that has "Thrall" of that
\* realm, and the roster is still the one on disk when the command was read
C31_Witness ==
  /\ pc[1] = "Done"
  /\ cmd[1] = AddCmd("eu", "Draenor", "thrall")
  /\ Last(out[1]).status = "added"
  /\ \E i \in DOMAIN characters[1] : characters[1][i].name = "Thrall"
                                      /\ characters[1][i].realm = "Draenor"
  /\ Len(characters[1]) >= 2
  /\ pre[1].rosterFile = save_data(characters[1])

====
